---- MODULE Spec2Model ----
(***************************************************************************)
(* Model of the MicrotonalStepSequencer library: the Cell tree, Pattern    *)
(* addressing (PatternView), the pattern-addressed transforms of           *)
(* modify.cpp, the tuning math of create_midi_note and the sample/MIDI     *)
(* timeline translation of midi.cpp.                                       *)
(*                                                                         *)
(* Number representation.  The C++ code computes in float; the model uses  *)
(* exact fixed-point rationals:                                            *)
(*   - velocity, delay, gate, amount in [0,1] are k / Unit, k in 0..Unit;  *)
(*   - cents values (Tuning::intervals, Tuning::octave) are whole cents,   *)
(*     and tuning_base is held in cents (hundredths of a MIDI note);       *)
(*   - the float sample offset of note_sample_infos is a numerator over    *)
(*     OffsetDenom, a common multiple of every child count that occurs.    *)
(* Float rounding error is therefore not modelled; casts to unsigned       *)
(* integers are modelled as truncation, as in C++.                         *)
(***************************************************************************)
EXTENDS Integers, Sequences, FiniteSets, TLC

VARIABLES
    \* ---- PatternView iteration (pattern.hpp)
    vec_size,          \* vec_.size() of the container the view is built over
    view_pattern,      \* pattern_ : [offset, intervals]
    index_,            \* Iterator::index_
    interval_index_,   \* Iterator::interval_index_ (0-based, as in the code)
    visited,           \* indices dereferenced by operator* so far, in order
    view_pc,           \* "idle" | "loop" | "done" | "threw"
    \* ---- pattern-addressed transforms (modify.cpp)
    cell,              \* the caller's Cell
    pattern,           \* the Pattern argument
    amount,            \* the float amount argument, in 1/Unit
    args,              \* the other arguments of the call, as a record
    result,            \* the returned Cell, or Thrown
    op,                \* the operation last applied ("none" before any)
    \* ---- create_midi_note (midi.cpp)
    interval,          \* the int interval (pitch) argument
    tuning,            \* the Tuning argument: [intervals, octave]
    tuning_base,       \* the float tuning_base argument, in cents
    midi,              \* the MicrotonalNote returned, with the intermediates
    \* ---- timeline translation (midi.cpp, midi.hpp)
    phrase,            \* the Phrase: a sequence of Measures
    tl_args,           \* [sample_rate, bpm, tuning, base_frequency]
    timeline           \* what translate_to_midi_timeline returned and computed

vars == <<vec_size, view_pattern, index_, interval_index_, visited, view_pc,
          cell, pattern, amount, args, result, op,
          interval, tuning, tuning_base, midi,
          phrase, tl_args, timeline>>

viewVars == <<vec_size, view_pattern, index_, interval_index_, visited, view_pc>>
modifyVars == <<cell, pattern, amount, args, result, op>>
midiVars == <<interval, tuning, tuning_base, midi>>
timelineVars == <<phrase, tl_args, timeline>>

----------------------------------------------------------------------------
(* Bounds of the model *)

\* longest container a PatternView is built over
MaxVecSize == 5
\* largest Pattern::offset tried (one past MaxVecSize so that offset > N occurs)
MaxOffset == 6
\* largest single interval of a Pattern
MaxInterval == 3
\* one more than the number of dereferences after which a non-advancing
\* iteration is no longer followed
MaxVisits == 7

----------------------------------------------------------------------------
(* Generic helpers *)

Min(a, b) == IF a < b THEN a ELSE b

Max(a, b) == IF a > b THEN a ELSE b

\* std::clamp(v, lo, hi)
Clamp(v, lo, hi) == IF v < lo THEN lo ELSE IF v > hi THEN hi ELSE v

\* C++ integer division, truncating toward zero (b > 0)
TruncDiv(a, b) == IF a >= 0 THEN a \div b ELSE -((-a) \div b)

\* C++ integer remainder, sign of the dividend (b > 0)
TruncRem(a, b) == a - b * TruncDiv(a, b)

\* sequences over S of length lo..hi
SeqsOf(S, lo, hi) == UNION {[1..n -> S] : n \in lo..hi}

----------------------------------------------------------------------------
(* Pattern and PatternView (include/sequence/pattern.hpp) *)

\* longest interval list of a Pattern
MaxIntervals == 2

\* struct Pattern {offset, intervals}; intervals may be empty or hold zeros,
\* the type does not forbid either
Patterns ==
    [offset : 0..MaxOffset, intervals : SeqsOf(0..MaxInterval, 0, MaxIntervals)]

\* a plausible slip: only the interval list is checked
PatternViewThrows_IntervalsOnly(size, p) == Len(p.intervals) = 0

\* PatternView::PatternView : the condition under which the constructor throws
\* std::invalid_argument
PatternViewThrows(size, p) == Len(p.intervals) = 0 \/ size = 0

\* a plausible slip: the start index is taken as given, not clamped to size
IteratorInit_Unclamped(index, size) == index

\* PatternView::Iterator::Iterator : index_{std::min(index, vec_.size())}
IteratorInit(index, size) == Min(index, size)

\* PatternView::begin()
ViewBegin(size, p) == IteratorInit(p.offset, size)

\* PatternView::end()
ViewEnd(size) == IteratorInit(size, size)

\* Iterator::operator!= compares index_ only
IteratorNotEqual(a, b) == a # b

\* a plausible slip: the interval cursor is never advanced
IteratorIncrement_NoCycle(idx, iidx, size, p) ==
    [index_ |-> Min(idx + p.intervals[1], size), interval_index_ |-> 0]

\* Iterator::operator++ : add the current interval, clamp to size, advance the
\* interval cursor cyclically
IteratorIncrement(idx, iidx, size, p) ==
    [index_ |-> Min(idx + p.intervals[iidx + 1], size),
     interval_index_ |-> IF iidx + 1 >= Len(p.intervals) THEN 0 ELSE iidx + 1]

\* the constructor of the view followed by begin() of the range-for
ViewConstruct ==
    /\ view_pc = "idle"
    /\ IF PatternViewThrows(vec_size, view_pattern)
       THEN /\ view_pc' = "threw"
            /\ UNCHANGED <<index_, interval_index_>>
       ELSE /\ view_pc' = "loop"
            /\ index_' = ViewBegin(vec_size, view_pattern)
            /\ interval_index_' = 0
    /\ UNCHANGED <<vec_size, view_pattern, visited>>
    /\ UNCHANGED <<modifyVars, midiVars, timelineVars>>

\* one pass of `for (auto &c : view)`: it != end(), *it, ++it
LoopVisit ==
    /\ view_pc = "loop"
    /\ IteratorNotEqual(index_, ViewEnd(vec_size))
    /\ Len(visited) < MaxVisits
    /\ visited' = Append(visited, index_)
    /\ LET nxt == IteratorIncrement(index_, interval_index_, vec_size, view_pattern)
       IN  /\ index_' = nxt.index_
           /\ interval_index_' = nxt.interval_index_
    /\ UNCHANGED <<vec_size, view_pattern, view_pc>>
    /\ UNCHANGED <<modifyVars, midiVars, timelineVars>>

\* the range-for ends when it != end() is false
LoopExit ==
    /\ view_pc = "loop"
    /\ ~IteratorNotEqual(index_, ViewEnd(vec_size))
    /\ view_pc' = "done"
    /\ UNCHANGED <<vec_size, view_pattern, index_, interval_index_, visited>>
    /\ UNCHANGED <<modifyVars, midiVars, timelineVars>>

\* values of the variables a specification does not use
NoValue == [status |-> "none"]

ModifyIdle ==
    /\ cell = NoValue /\ pattern = NoValue /\ amount = 0 /\ args = NoValue
    /\ result = NoValue /\ op = "unused"

MidiIdle ==
    /\ interval = 0 /\ tuning = NoValue /\ tuning_base = 0 /\ midi = NoValue

TimelineIdle ==
    /\ phrase = NoValue /\ tl_args = NoValue /\ timeline = NoValue

ViewIdle ==
    /\ vec_size = 0 /\ view_pattern = NoValue /\ index_ = 0
    /\ interval_index_ = 0 /\ visited = <<>> /\ view_pc = "unused"

ViewInit ==
    /\ vec_size \in 0..MaxVecSize
    /\ view_pattern \in Patterns
    /\ index_ = 0
    /\ interval_index_ = 0
    /\ visited = <<>>
    /\ view_pc = "idle"
    /\ ModifyIdle /\ MidiIdle /\ TimelineIdle

ViewNext == ViewConstruct \/ LoopVisit \/ LoopExit

ViewSpec == ViewInit /\ [][ViewNext]_vars

----------------------------------------------------------------------------
(* C1 *)

\* every interval of the pattern is at least 1
PositiveIntervals(p) == \A k \in 1..Len(p.intervals) : p.intervals[k] >= 1

RECURSIVE IndexWalk(_, _, _, _)
\* the indices i, i + intervals[k], i + intervals[k] + intervals[k+1], ...
\* below n, the interval list being read cyclically from position k (0-based)
IndexWalk(i, k, n, ivs) ==
    IF i >= n THEN <<>>
    ELSE <<i>> \o IndexWalk(i + ivs[(k % Len(ivs)) + 1], k + 1, n, ivs)

\* C1: for a container of length N >= 1 and a Pattern with intervals >= 1, the
\* finished iteration of the mutable view has visited exactly the indices
\* offset, offset + intervals[0], ... that are below N, in increasing order
\* and each once, and nothing when offset >= N.
C1_ViewVisitsPatternIndices ==
    (view_pc = "done" /\ vec_size >= 1 /\ PositiveIntervals(view_pattern)) =>
        /\ visited = IndexWalk(view_pattern.offset, 0, vec_size,
                               view_pattern.intervals)
        /\ \A k \in 1..Len(visited) : visited[k] < vec_size
        /\ \A k \in 1..(Len(visited) - 1) : visited[k] < visited[k + 1]
        /\ (view_pattern.offset >= vec_size => visited = <<>>)

\* a finished iteration with a non-zero offset and two different intervals,
\* which visited at least three indices and was clamped at the end
C1_Witness ==
    /\ view_pc = "done"
    /\ vec_size >= 1
    /\ PositiveIntervals(view_pattern)
    /\ view_pattern.offset >= 1
    /\ Len(view_pattern.intervals) = 2
    /\ view_pattern.intervals[1] # view_pattern.intervals[2]
    /\ Len(visited) >= 3
    /\ visited[Len(visited)] + view_pattern.intervals[1] > vec_size

----------------------------------------------------------------------------
(* Tuning math: create_midi_note (src/midi.cpp) *)

\* largest |interval| handed to create_midi_note
MaxPitch == 30

\* constexpr auto semitone_cents = 100.f
semitone_cents == 100

\* the pitch bend center and the value of one semitone of bend: * 8192
bend_unit == 8192

\* the upper clamp bound 127.f, the highest MIDI note
max_midi_note == 127

\* 12 equal divisions of the octave
Edo12 == [intervals |-> [i \in 1..12 |-> 100 * (i - 1)], octave |-> 1200]

\* the tunings of test/midi.test.cpp, in whole cents, and the empty tuning
Tunings ==
    { Edo12,
      [intervals |-> <<0, 87, 196, 304, 391, 504, 578, 696, 796, 896, 1013, 1087>>,
       octave |-> 1200],
      [intervals |-> <<0>>, octave |-> 1200],
      [intervals |-> <<0, 50, 100, 150, 200>>, octave |-> 1200],
      [intervals |-> <<0, 146, 293, 439, 585, 732, 878, 1024, 1170, 1317, 1463,
                       1609, 1756>>,
       octave |-> 1902],
      [intervals |-> <<>>, octave |-> 1200] }

\* tuning_base values, in cents: 0, 10.5, 40.75, 60, 63, 100, 126.63
TuningBases == {0, 1050, 4075, 6000, 6300, 10000, 12663}

\* the value create_midi_note leaves when it throws std::invalid_argument
Thrown == [status |-> "invalid_argument"]

\* a plausible slip: floor division instead of C++ truncation
octave_offset_Floor(itv, tun) == (itv \div Len(tun.intervals)) * tun.octave

\* auto const octave_offset = (float)(interval / length) * tuning.octave
octave_offset(itv, tun) == TruncDiv(itv, Len(tun.intervals)) * tun.octave

\* a plausible slip: the negative branch forgets to go down one octave
interval_offset_NoOctave(itv, tun) ==
    LET length == Len(tun.intervals)
        interval_index == TruncRem(itv, length)
    IN  IF interval_index < 0
        THEN tun.intervals[interval_index + length + 1]
        ELSE tun.intervals[interval_index + 1]

\* the interval_offset lambda (tuning.intervals is 0-based in the code)
interval_offset(itv, tun) ==
    LET length == Len(tun.intervals)
        interval_index == TruncRem(itv, length)
    IN  IF interval_index < 0
        THEN tun.intervals[interval_index + length + 1] - tun.octave
        ELSE tun.intervals[interval_index + 1]

\* a plausible slip: the octave offset is left out of the sum
cents_total_NoOctave(itv, tun) == interval_offset(itv, tun)

\* octave_offset + interval_offset, the numerator of the value the lambda
\* returns (in cents)
cents_total(itv, tun) == octave_offset(itv, tun) + interval_offset(itv, tun)

\* fractional_note = tuning_base + cents_total / semitone_cents, held in cents
fractional_note(itv, tun, base) == base + cents_total(itv, tun)

\* a plausible slip: only the lower bound is applied
clamp_note_LowerOnly(fn) == Max(fn, 0)

\* std::clamp(fractional_note, 0.f, 127.f), in cents
clamp_note(fn) == Clamp(fn, 0, max_midi_note * semitone_cents)

\* a plausible slip: rounding to nearest instead of the truncating cast
pitch_bend_Rounded(fractional) ==
    (2 * (semitone_cents + fractional) * bend_unit + semitone_cents)
        \div (2 * semitone_cents)

\* static_cast<std::uint16_t>((1 + fractional) * 8192), fractional in
\* 1/semitone_cents
pitch_bend_of(fractional) ==
    (((semitone_cents + fractional) * bend_unit) \div semitone_cents) % 65536

\* create_midi_note: the MicrotonalNote {note, pitch_bend}; cents_total and
\* fractional_note record the intermediate values of the call
create_midi_note(itv, tun, base) ==
    IF Len(tun.intervals) = 0 THEN Thrown
    ELSE LET fn == fractional_note(itv, tun, base)
             clamped == clamp_note(fn)
             integral == clamped \div semitone_cents
             fractional == clamped % semitone_cents
         IN  [status |-> "ok",
              note |-> integral % 256,
              pitch_bend |-> pitch_bend_of(fractional),
              cents_total |-> cents_total(itv, tun),
              fractional_note |-> fn]

\* one call of create_midi_note
CreateMidiNote ==
    /\ midi.status = "none"
    /\ midi' = create_midi_note(interval, tuning, tuning_base)
    /\ UNCHANGED <<interval, tuning, tuning_base>>
    /\ UNCHANGED <<viewVars, modifyVars, timelineVars>>

MidiInit ==
    /\ interval \in -MaxPitch..MaxPitch
    /\ tuning \in Tunings
    /\ tuning_base \in TuningBases
    /\ midi = NoValue
    /\ ViewIdle /\ ModifyIdle /\ TimelineIdle

MidiNext == CreateMidiNote

MidiSpec == MidiInit /\ [][MidiNext]_vars

\* create_midi_note has returned a MicrotonalNote
MidiReturned == midi.status = "ok"

----------------------------------------------------------------------------
(* C7 *)

\* Euclidean modulo, always in 0..(L-1)
EuclidMod(a, L) == a % L

\* C7 as stated: floor(pitch / L) * octave + intervals[pitch mod L], reduced
\* by one further octave whenever the truncating remainder is negative.
C7_FloorAndFurtherOctave ==
    MidiReturned =>
        LET L == Len(tuning.intervals)
        IN  midi.cents_total =
                (interval \div L) * tuning.octave
                + tuning.intervals[EuclidMod(interval, L) + 1]
                - (IF TruncRem(interval, L) < 0 THEN tuning.octave ELSE 0)

\* C7 amended: octave_offset is the truncating quotient (toward zero) times
\* the octave, and interval_offset is intervals[pitch mod L] (Euclidean,
\* index in 0..L-1) less one octave when the truncating remainder is negative;
\* so cents_total = floor(pitch / L) * octave + intervals[pitch mod L] with no
\* further reduction.
C7_TruncatingOctaveOffset ==
    MidiReturned =>
        LET L == Len(tuning.intervals)
            idx == EuclidMod(interval, L)
        IN  /\ idx \in 0..(L - 1)
            /\ midi.cents_total =
                   TruncDiv(interval, L) * tuning.octave
                   + tuning.intervals[idx + 1]
                   - (IF TruncRem(interval, L) < 0 THEN tuning.octave ELSE 0)
            /\ midi.cents_total =
                   (interval \div L) * tuning.octave + tuning.intervals[idx + 1]

\* a negative pitch below one whole tuning length whose truncating remainder
\* is negative, in a tuning of several notes
C7_Witness ==
    /\ MidiReturned
    /\ interval < -Len(tuning.intervals)
    /\ Len(tuning.intervals) > 1
    /\ TruncRem(interval, Len(tuning.intervals)) < 0

----------------------------------------------------------------------------
(* C8 *)

\* C8: with 12-tone equal temperament, tuning_base 60 (and the one-semitone
\* bend range the function is written for), every pitch p in 0..12 maps to
\* MIDI note 60 + p with pitch_bend exactly 8192.
C8_Edo12RoundTrip ==
    (MidiReturned /\ tuning = Edo12 /\ tuning_base = 6000 /\ interval \in 0..12) =>
        midi.note = 60 + interval /\ midi.pitch_bend = 8192

\* pitch 12, one whole octave above the base, has been translated
C8_Witness ==
    /\ MidiReturned /\ tuning = Edo12 /\ tuning_base = 6000 /\ interval = 12
    /\ midi.note = 72

----------------------------------------------------------------------------
(* C9 *)

\* C9: a fractional note below 0 gives {0, 8192}, one above 127 gives
\* {127, 8192}, and the returned note is always in 0..127.
C9_Saturates ==
    MidiReturned =>
        /\ (midi.fractional_note < 0 => midi.note = 0 /\ midi.pitch_bend = 8192)
        /\ (midi.fractional_note > 12700 =>
                midi.note = 127 /\ midi.pitch_bend = 8192)
        /\ midi.note \in 0..127

\* a call whose fractional note lies above 127
C9_Witness == MidiReturned /\ midi.fractional_note > 12700 /\ midi.note = 127

----------------------------------------------------------------------------
(* C10 *)

\* the fractional remainder f of the clamped note, in 1/100
FractionOfClamped ==
    Clamp(midi.fractional_note, 0, 12700) % 100

\* C10 as stated, for the bend range of one semitone the function under src
\* implements: pitch_bend = 8192 + round(f * 8192), within 0..16383.
C10_RoundedBend ==
    MidiReturned =>
        /\ midi.pitch_bend = 8192 + (2 * FractionOfClamped * 8192 + 100) \div 200
        /\ midi.pitch_bend \in 0..16383

\* C10 amended: pitch_bend = 8192 + trunc(f * 8192) (the cast truncates, it
\* does not round; the function takes no pb_range and bends over one
\* semitone), and it stays within 8192..16383.
C10_TruncatedBend ==
    MidiReturned =>
        /\ midi.pitch_bend = 8192 + (FractionOfClamped * 8192) \div 100
        /\ midi.pitch_bend \in 8192..16383

\* a call whose f * 8192 has a fractional part of at least one half, where
\* rounding and truncation differ
C10_Witness ==
    /\ MidiReturned
    /\ (FractionOfClamped * 8192) % 100 >= 50

----------------------------------------------------------------------------
(* The Cell tree (include/sequence/sequence.hpp) *)

\* 1.0 of a velocity, delay, gate or amount; the values are k / Unit
Unit == 2

\* most direct children of the outermost Sequence
MaxCells == 3
\* most direct children of a nested Sequence
MaxSubCells == 2

\* struct Note {interval, velocity, delay, gate}
Note(i, v, d, g) ==
    [type |-> "Note", interval |-> i, velocity |-> v, delay |-> d, gate |-> g]

\* struct Rest {}
Rest == [type |-> "Rest"]

\* struct Sequence {cells}
Sequence(cs) == [type |-> "Sequence", cells |-> cs]

IsNote(c) == c.type = "Note"
IsRest(c) == c.type = "Rest"
IsSequence(c) == c.type = "Sequence"

\* Cells of nesting depth up to two over a set of leaves: a leaf, or a
\* Sequence of leaves and of Sequences of leaves (empty Sequences included)
CellsOver(leaves) ==
    LET inner == {Sequence(cs) : cs \in SeqsOf(leaves, 0, MaxSubCells)}
    IN  leaves \cup {Sequence(cs) : cs \in SeqsOf(leaves \cup inner, 0, MaxCells)}

----------------------------------------------------------------------------
(* Pattern-addressed transforms (src/modify.cpp) *)

\* largest Pattern::offset and interval handed to a transform
MaxModifyOffset == 2
MaxModifyInterval == 2

\* the Patterns handed to the transforms: intervals all >= 1, or none at all
ModifyPatterns ==
    [offset : 0..MaxModifyOffset,
     intervals : SeqsOf(1..MaxModifyInterval, 0, MaxIntervals)]

\* amounts, in 1/Unit: the range [0,1] and one value on either side of it
Amounts == (-1)..(Unit + 1)

\* the Cells handed to the transforms: Notes start at velocity = delay = 1/Unit
ModifyCells == CellsOver({Rest, Note(0, 1, 1, Unit)})

RECURSIVE ViewWalk(_, _, _, _)
\* the indices `for (auto &c : view)` dereferences, from iterator (idx, iidx)
ViewWalk(idx, iidx, size, p) ==
    IF ~IteratorNotEqual(idx, ViewEnd(size)) THEN <<>>
    ELSE LET nxt == IteratorIncrement(idx, iidx, size, p)
         IN  <<idx>> \o ViewWalk(nxt.index_, nxt.interval_index_, size, p)

\* a plausible slip: the loop runs over every child, not over the view
ViewIndices_All(size, p) == [k \in 1..size |-> k - 1]

\* the indices the range-for over PatternView{seq.cells, pattern} visits
ViewIndices(size, p) == ViewWalk(ViewBegin(size, p), 0, size, p)

\* a returned Cell
Ok(c) == [status |-> "ok", cell |-> c]

RECURSIVE humanize(_, _, _, _)
RECURSIVE humanize_loop(_, _, _, _, _, _)

\* the range-for of the Sequence branch from position k of the visit list on:
\* c = humanize_*(c, pattern, amount) for each visited child; vecs is the set
\* of child vectors the random draws made so far can have produced.  An
\* exception thrown by a recursive call leaves the loop.
humanize_loop(vecs, visit, k, p, a, field) ==
    IF k > Len(visit) THEN [threw |-> FALSE, vecs |-> vecs]
    ELSE LET i == visit[k] + 1
             outs == UNION {{[from |-> v, out |-> o] :
                                o \in humanize(v[i], p, a, field)} : v \in vecs}
         IN  IF \E x \in outs : x.out.status # "ok"
             THEN [threw |-> TRUE, vecs |-> {}]
             ELSE humanize_loop({[x.from EXCEPT ![i] = x.out.cell] : x \in outs},
                                visit, k + 1, p, a, field)

\* humanize_velocity / humanize_delay, which differ in the Note field only:
\* the set of values the call can return (one per outcome of the random
\* draws), or Thrown
humanize(c, p, a, field) ==
    IF a < 0 \/ a > Unit THEN {Thrown}
    ELSE IF IsNote(c)
    THEN LET min == Clamp(c[field] - a, 0, Unit)
             max == Clamp(c[field] + a, 0, Unit)
         IN  {Ok([c EXCEPT ![field] = x]) : x \in min..max}
    ELSE IF IsRest(c) THEN {Ok(c)}
    ELSE IF PatternViewThrows(Len(c.cells), p) THEN {Thrown}
    ELSE LET r == humanize_loop({c.cells}, ViewIndices(Len(c.cells), p), 1,
                                p, a, field)
         IN  IF r.threw THEN {Thrown} ELSE {Ok(Sequence(v)) : v \in r.vecs}

\* auto humanize_velocity(Cell cell, Pattern const &pattern, float amount)
humanize_velocity(c, p, a) == humanize(c, p, a, "velocity")

\* auto humanize_delay(Cell cell, Pattern const &pattern, float amount)
humanize_delay(c, p, a) == humanize(c, p, a, "delay")

\* one call of humanize_velocity; the argument is taken by value, the caller's
\* cell is untouched
HumanizeVelocity ==
    /\ op = "none"
    /\ \E p \in ModifyPatterns, a \in Amounts :
          /\ pattern' = p
          /\ amount' = a
          /\ result' \in humanize_velocity(cell, p, a)
    /\ op' = "humanize_velocity"
    /\ UNCHANGED <<cell, args>>
    /\ UNCHANGED <<viewVars, midiVars, timelineVars>>

\* one call of humanize_delay
HumanizeDelay ==
    /\ op = "none"
    /\ \E p \in ModifyPatterns, a \in Amounts :
          /\ pattern' = p
          /\ amount' = a
          /\ result' \in humanize_delay(cell, p, a)
    /\ op' = "humanize_delay"
    /\ UNCHANGED <<cell, args>>
    /\ UNCHANGED <<viewVars, midiVars, timelineVars>>

Init ==
    /\ cell \in ModifyCells
    /\ pattern = NoValue
    /\ amount = 0
    /\ args = NoValue
    /\ result = NoValue
    /\ op = "none"
    /\ ViewIdle /\ MidiIdle /\ TimelineIdle

Next == HumanizeVelocity \/ HumanizeDelay

Spec == Init /\ [][Next]_vars

----------------------------------------------------------------------------
(* C2 *)

\* the indices below n that the pattern selects, as a set
Selected(n, p) ==
    LET w == IndexWalk(p.offset, 0, n, p.intervals)
    IN  {w[k] : k \in 1..Len(w)}

RECURSIVE OnlySelectedRewritten(_, _, _)
\* `after` differs from `before` at most in Notes that the pattern reaches:
\* a Note stays a Note, a Rest a Rest, a Sequence keeps its number of
\* children, its unselected children are equal and its selected children
\* satisfy the same condition under the same pattern
OnlySelectedRewritten(before, after, p) ==
    IF IsSequence(before)
    THEN /\ IsSequence(after)
         /\ Len(after.cells) = Len(before.cells)
         /\ \A i \in 1..Len(before.cells) :
               IF (i - 1) \in Selected(Len(before.cells), p)
               THEN OnlySelectedRewritten(before.cells[i], after.cells[i], p)
               ELSE after.cells[i] = before.cells[i]
    ELSE after.type = before.type

\* C2: a pattern-addressed transform of a Sequence (humanize_velocity,
\* humanize_delay) that returns rewrites only the children at the indices the
\* Pattern selects, applies the same un-offset Pattern inside every selected
\* child Sequence, returns every unselected child with its subtree unchanged,
\* and keeps the number and order of children at every level.
C2_OnlySelectedChildrenRewritten ==
    (op \in {"humanize_velocity", "humanize_delay"} /\ result.status = "ok"
     /\ IsSequence(cell)) =>
        OnlySelectedRewritten(cell, result.cell, pattern)

\* a call that returned with an unselected Note, a rewritten selected Note
\* and a selected child Sequence holding an unselected child of its own
C2_Witness ==
    /\ op = "humanize_velocity"
    /\ result.status = "ok"
    /\ IsSequence(cell)
    /\ LET n == Len(cell.cells)
           sel == Selected(n, pattern)
       IN  /\ \E i \in 1..n : (i - 1) \notin sel /\ IsNote(cell.cells[i])
           /\ \E i \in 1..n :
                 /\ (i - 1) \in sel
                 /\ IsNote(cell.cells[i])
                 /\ result.cell.cells[i] # cell.cells[i]
           /\ \E i \in 1..n :
                 /\ (i - 1) \in sel
                 /\ IsSequence(cell.cells[i])
                 /\ Len(cell.cells[i].cells) = 2
                 /\ Cardinality(Selected(2, pattern)) = 1

----------------------------------------------------------------------------
(* Measures and sample counts (src/measure.cpp, include/sequence/midi.hpp) *)

RECURSIVE Gcd(_, _)
Gcd(a, b) == IF b = 0 THEN a ELSE Gcd(b, a % b)

Lcm(a, b) == (a * b) \div Gcd(a, b)

RECURSIVE LcmUpTo(_)
\* the least common multiple of 1..n
LcmUpTo(n) == IF n <= 1 THEN 1 ELSE Lcm(n, LcmUpTo(n - 1))

\* struct TimeSignature {numerator, denominator}: 4/4 and 3/4
TimeSignatures ==
    {[numerator |-> 4, denominator |-> 4], [numerator |-> 3, denominator |-> 4]}

\* struct Measure {cell, time_signature}
Measure(c, ts) == [cell |-> c, time_signature |-> ts]

\* sample rate and tempo tried; a small rate keeps the sample counts small
\* (14 for 4/4, 10.5 for 3/4) and indivisible by the child counts
SampleRates == {7}
Bpms == {120}

\* the float sample offsets are numerators over OffsetDenom: a multiple of
\* every child count (samples_per_cell = total / size) and of the denominators
\* of the un-truncated samples_per_measure of midi.hpp, 60 * 2 * num / (bpm * den)
OffsetDenom == LcmUpTo(Max(MaxCells, MaxSubCells)) * 4 * 120

\* static_cast<std::uint32_t> of a non-negative float held over OffsetDenom:
\* truncation (the sample counts of the model stay far below 2^32)
ToUint32(x) == x \div OffsetDenom

\* an unsigned integer as a float over OffsetDenom
ToFloat(n) == n * OffsetDenom

\* samples_count(Measure, sample_rate, bpm) of measure.cpp:
\* uint32(sample_rate * 60 / bpm * (numerator / denominator) * 4)
samples_count(m, sample_rate, bpm) ==
    (sample_rate * 60 * m.time_signature.numerator * 4)
        \div (bpm * m.time_signature.denominator)

\* the samples_per_measure lambda of midi.hpp, a float over OffsetDenom:
\* sample_rate * 60 / bpm * (numerator / denominator) * 2
hpp_samples_per_measure(m, sample_rate, bpm) ==
    (sample_rate * 60 * m.time_signature.numerator * 2 * OffsetDenom)
        \div (bpm * m.time_signature.denominator)

----------------------------------------------------------------------------
(* Sample ranges: note_sample_infos (src/midi.cpp) *)

\* struct SampleRange {begin, end}
SampleRange(b, e) == [begin |-> b, end |-> e]

\* a plausible slip: the delay and the sounding length are rounded to nearest
note_range_Rounded(n, total_samples, offset) ==
    LET delay == (2 * total_samples * n.delay + Unit) \div (2 * Unit)
        note_samples == (2 * (total_samples - delay) * n.gate + Unit) \div (2 * Unit)
    IN  SampleRange(ToUint32(offset + ToFloat(delay)),
                    ToUint32(offset + ToFloat(delay) + ToFloat(note_samples)))

\* a plausible slip: the sounding length is the gate's share of the whole
\* slot, not of what the delay leaves of it
note_range_GateOfTotal(n, total_samples, offset) ==
    LET delay == (total_samples * n.delay) \div Unit
        note_samples == (total_samples * n.gate) \div Unit
    IN  SampleRange(ToUint32(offset + ToFloat(delay)),
                    ToUint32(offset + ToFloat(delay) + ToFloat(note_samples)))

\* the Note branch: delay = uint32(total * note.delay), note_samples =
\* uint32((total - delay) * note.gate), range {offset + delay, ... + note_samples}
note_range(n, total_samples, offset) ==
    LET delay == (total_samples * n.delay) \div Unit
        note_samples == ((total_samples - delay) * n.gate) \div Unit
    IN  SampleRange(ToUint32(offset + ToFloat(delay)),
                    ToUint32(offset + ToFloat(delay) + ToFloat(note_samples)))

\* static_cast<std::uint32_t>(samples_per_cell), the total handed to a child,
\* with samples_per_cell = (float)total_samples / (float)seq.cells.size()
child_samples(total_samples, size) == total_samples \div size

\* a plausible slip: the offset advances by the truncated share
advance_offset_Truncated(offset, total_samples, size) ==
    offset + ToFloat(total_samples \div size)

\* offset += samples_per_cell, the float quotient
advance_offset(offset, total_samples, size) ==
    offset + total_samples * (OffsetDenom \div size)

\* nothing emitted
NoInfos == [infos |-> <<>>, note_calls |-> <<>>, seq_calls |-> <<>>]

\* concatenation of what two calls emitted
JoinInfos(a, b) ==
    [infos |-> a.infos \o b.infos,
     note_calls |-> a.note_calls \o b.note_calls,
     seq_calls |-> a.seq_calls \o b.seq_calls]

RECURSIVE note_sample_infos(_, _, _)
RECURSIVE sample_loop(_, _, _, _, _, _)

\* the for loop of the Sequence branch from child k on; acc is what the
\* earlier children emitted, shares the totals handed out so far.  The result
\* carries the offset after the last child.
sample_loop(cells, k, total_samples, offset, acc, shares) ==
    IF k > Len(cells)
    THEN [out |-> acc, shares |-> shares, end_offset |-> offset]
    ELSE LET share == child_samples(total_samples, Len(cells))
             r == note_sample_infos(cells[k], share, offset)
         IN  sample_loop(cells, k + 1, total_samples,
                         advance_offset(offset, total_samples, Len(cells)),
                         JoinInfos(acc, r), Append(shares, share))

\* note_sample_infos(cell, total_samples, offset): infos is the returned
\* vector<SampleRange>; note_calls and seq_calls record, for every Note and
\* every Sequence visited, the arguments of the call and what it did
note_sample_infos(c, total_samples, offset) ==
    IF IsNote(c)
    THEN LET r == note_range(c, total_samples, offset)
         IN  [infos |-> <<r>>,
              note_calls |-> <<[note |-> c, total_samples |-> total_samples,
                                offset |-> offset, range |-> r]>>,
              seq_calls |-> <<>>]
    ELSE IF IsRest(c) THEN NoInfos
    ELSE LET l == sample_loop(c.cells, 1, total_samples, offset, NoInfos, <<>>)
         IN  JoinInfos([NoInfos EXCEPT !.seq_calls =
                            <<[size |-> Len(c.cells),
                               total_samples |-> total_samples,
                               offset |-> offset,
                               shares |-> l.shares,
                               end_offset |-> l.end_offset]>>],
                       l.out)

RECURSIVE sample_infos_from(_, _, _, _, _, _)
\* the loop over the measures of flatten_and_translate_to_sample_infos
sample_infos_from(ph, k, sample_rate, bpm, sample_offset, acc) ==
    IF k > Len(ph) THEN acc
    ELSE LET samples_per_measure == samples_count(ph[k], sample_rate, bpm)
             r == note_sample_infos(ph[k].cell, samples_per_measure, sample_offset)
         IN  sample_infos_from(ph, k + 1, sample_rate, bpm,
                               sample_offset + ToFloat(samples_per_measure),
                               JoinInfos(acc, r))

\* flatten_and_translate_to_sample_infos(phrase, sample_rate, bpm)
flatten_and_translate_to_sample_infos(ph, sample_rate, bpm) ==
    sample_infos_from(ph, 1, sample_rate, bpm, 0, NoInfos)

----------------------------------------------------------------------------
(* Flattening and timeline assembly (src/midi.cpp) *)

\* struct MicrotonalNote {note, pitch_bend}
MicrotonalNote(n, pb) == [note |-> n, pitch_bend |-> pb]

RECURSIVE create_midi_note_visitor(_, _, _)
RECURSIVE midi_note_loop(_, _, _, _, _)

\* the loop of the Sequence branch of create_midi_note_visitor; an exception
\* of a recursive call leaves it
midi_note_loop(cells, k, tun, base, acc) ==
    IF k > Len(cells) THEN [threw |-> FALSE, notes |-> acc]
    ELSE LET r == create_midi_note_visitor(cells[k], tun, base)
         IN  IF r.threw THEN r
             ELSE midi_note_loop(cells, k + 1, tun, base, acc \o r.notes)

\* create_midi_note_visitor(cell, tuning, tuning_base): the MicrotonalNotes of
\* the Notes of the cell, or threw when create_midi_note throws
create_midi_note_visitor(c, tun, base) ==
    IF IsNote(c)
    THEN LET m == create_midi_note(c.interval, tun, base)
         IN  IF m.status = "ok"
             THEN [threw |-> FALSE, notes |-> <<MicrotonalNote(m.note, m.pitch_bend)>>]
             ELSE [threw |-> TRUE, notes |-> <<>>]
    ELSE IF IsRest(c) THEN [threw |-> FALSE, notes |-> <<>>]
    ELSE midi_note_loop(c.cells, 1, tun, base, <<>>)

\* base_midi_note = 12 * log2(base_frequency / 440) + 69, in cents, for the
\* base frequencies 440 * 2^k the model uses
base_midi_note(base_frequency) ==
    CASE base_frequency = 220 -> 5700
      [] base_frequency = 440 -> 6900
      [] base_frequency = 880 -> 8100

RECURSIVE midi_notes_from(_, _, _, _, _)
\* the loop over the measures of flatten_and_translate_to_midi_notes(Phrase)
midi_notes_from(ph, k, tun, base_frequency, acc) ==
    IF k > Len(ph) THEN [threw |-> FALSE, notes |-> acc]
    ELSE LET r == create_midi_note_visitor(ph[k].cell, tun,
                                           base_midi_note(base_frequency))
         IN  IF r.threw THEN r
             ELSE midi_notes_from(ph, k + 1, tun, base_frequency, acc \o r.notes)

\* flatten_and_translate_to_midi_notes(phrase, tuning, base_frequency)
flatten_and_translate_to_midi_notes(ph, tun, base_frequency) ==
    midi_notes_from(ph, 1, tun, base_frequency, <<>>)

RECURSIVE flatten_notes(_)
RECURSIVE flatten_cells(_, _)

\* the Notes of the children from child k on, in order
flatten_cells(cells, k) ==
    IF k > Len(cells) THEN <<>>
    ELSE flatten_notes(cells[k]) \o flatten_cells(cells, k + 1)

\* a plausible slip: child Sequences are not descended into
flatten_notes_Shallow(c) ==
    IF IsNote(c) THEN <<c>>
    ELSE IF IsRest(c) THEN <<>>
    ELSE SelectSeq(c.cells, IsNote)

\* flatten_notes(Cell): the Notes of the tree, depth first, left to right
flatten_notes(c) ==
    IF IsNote(c) THEN <<c>>
    ELSE IF IsRest(c) THEN <<>>
    ELSE flatten_cells(c.cells, 1)

RECURSIVE flatten_phrase_from(_, _)
\* the loop over the measures of flatten_notes(Phrase)
flatten_phrase_from(ph, k) ==
    IF k > Len(ph) THEN <<>>
    ELSE flatten_notes(ph[k].cell) \o flatten_phrase_from(ph, k + 1)

\* flatten_notes(Phrase)
flatten_notes_phrase(ph) == flatten_phrase_from(ph, 1)

\* the events NoteOn{note, velocity}, NoteOff{note}, PitchBend{value}
NoteOn(n, v) == [kind |-> "NoteOn", note |-> n, velocity |-> v]
NoteOff(n) == [kind |-> "NoteOff", note |-> n]
PitchBend(v) == [kind |-> "PitchBend", value |-> v]

\* one entry of the EventTimeline: an Event paired with a sample offset
Entry(e, smp) == [event |-> e, sample |-> smp]

\* static_cast<std::uint8_t>(notes[i].velocity * 127)
midi_velocity(n) == ((n.velocity * 127) \div Unit) % 256

\* the three emplace_back calls of midi.cpp for entry i of the lists
emit_events(range, mnote, n) ==
    << Entry(PitchBend(mnote.pitch_bend), range.begin),
       Entry(NoteOn(mnote.note, midi_velocity(n)), range.begin),
       Entry(NoteOff(mnote.note), range.end) >>

RECURSIVE events_from(_, _, _, _)
\* `for (auto i = 0u; i < ranges.size(); ++i)` of midi.cpp
events_from(ranges, midi_notes, notes, i) ==
    IF i > Len(ranges) THEN <<>>
    ELSE emit_events(ranges[i], midi_notes[i], notes[i])
             \o events_from(ranges, midi_notes, notes, i + 1)

\* translate_to_midi_timeline of midi.cpp: the EventTimeline (events), with
\* the three lists it was assembled from and the two asserts; Thrown when the
\* tuning is empty and a Note is reached
translate_to_midi_timeline(ph, sample_rate, bpm, tun, base_frequency) ==
    LET si == flatten_and_translate_to_sample_infos(ph, sample_rate, bpm)
        mn == flatten_and_translate_to_midi_notes(ph, tun, base_frequency)
        notes == flatten_notes_phrase(ph)
    IN  IF mn.threw THEN Thrown
        ELSE LET asserts == /\ Len(si.infos) = Len(mn.notes)
                            /\ Len(si.infos) = Len(notes)
             IN  [status |-> "ok",
                  variant |-> "midi.cpp",
                  ranges |-> si.infos,
                  midi_notes |-> mn.notes,
                  notes |-> notes,
                  asserts_hold |-> asserts,
                  note_calls |-> si.note_calls,
                  seq_calls |-> si.seq_calls,
                  events |-> IF asserts
                             THEN events_from(si.infos, mn.notes, notes, 1)
                             ELSE <<>>]

----------------------------------------------------------------------------
(* The inline overloads of include/sequence/midi.hpp (Measure::sequence,   *)
(* bpm as uint16_t).  create_midi_note_visitor and flatten_notes have the  *)
(* same bodies there as in midi.cpp and are shared.                        *)

\* the Note branch of midi.hpp, which works on the float samples_per_cell
\* (spc, over OffsetDenom): delay = spc * note.delay and note_samples =
\* (spc - delay) * note.gate, both converted to uint32
hpp_note_range(n, spc, offset) ==
    LET delay == (spc * n.delay) \div (Unit * OffsetDenom)
        note_samples == ((spc - ToFloat(delay)) * n.gate) \div (Unit * OffsetDenom)
    IN  SampleRange(ToUint32(offset + ToFloat(delay)),
                    ToUint32(offset + ToFloat(delay) + ToFloat(note_samples)))

RECURSIVE hpp_note_sample_infos(_, _, _, _)
\* note_sample_infos(Sequence, total_samples, offset) of midi.hpp, from child
\* k on: every child advances the offset by samples_per_cell; a child
\* Sequence is given samples_per_cell converted to uint32
hpp_note_sample_infos(cells, k, total_samples, offset) ==
    IF k > Len(cells) THEN <<>>
    ELSE LET samples_per_cell == total_samples * (OffsetDenom \div Len(cells))
             c == cells[k]
             infos == IF IsNote(c)
                      THEN <<hpp_note_range(c, samples_per_cell, offset)>>
                      ELSE IF IsRest(c) THEN <<>>
                      ELSE hpp_note_sample_infos(c.cells, 1,
                                                 ToUint32(samples_per_cell), offset)
         IN  infos \o hpp_note_sample_infos(cells, k + 1, total_samples,
                                             offset + samples_per_cell)

RECURSIVE hpp_sample_infos_from(_, _, _, _, _)
\* flatten_and_translate_to_sample_infos of midi.hpp from measure k on:
\* samples_per_measure stays a float, is converted to uint32 for the call
\* and added un-truncated to sample_offset
hpp_sample_infos_from(ph, k, sample_rate, bpm, sample_offset) ==
    IF k > Len(ph) THEN <<>>
    ELSE LET samples_per_measure == hpp_samples_per_measure(ph[k], sample_rate, bpm)
         IN  hpp_note_sample_infos(ph[k].cell.cells, 1,
                                   ToUint32(samples_per_measure), sample_offset)
             \o hpp_sample_infos_from(ph, k + 1, sample_rate, bpm,
                                      sample_offset + samples_per_measure)

\* the three emplace_back calls of midi.hpp: NoteOn, PitchBend, NoteOff
hpp_emit_events(range, mnote, n) ==
    << Entry(NoteOn(mnote.note, midi_velocity(n)), range.begin),
       Entry(PitchBend(mnote.pitch_bend), range.begin),
       Entry(NoteOff(mnote.note), range.end) >>

RECURSIVE hpp_events_from(_, _, _, _)
\* `for (auto i = 0u; i < ranges.size(); ++i)` of midi.hpp
hpp_events_from(ranges, midi_notes, notes, i) ==
    IF i > Len(ranges) THEN <<>>
    ELSE hpp_emit_events(ranges[i], midi_notes[i], notes[i])
             \o hpp_events_from(ranges, midi_notes, notes, i + 1)

\* translate_to_midi_timeline of midi.hpp
hpp_translate_to_midi_timeline(ph, sample_rate, bpm, tun, base_frequency) ==
    LET ranges == hpp_sample_infos_from(ph, 1, sample_rate, bpm, 0)
        mn == flatten_and_translate_to_midi_notes(ph, tun, base_frequency)
        notes == flatten_notes_phrase(ph)
    IN  IF mn.threw THEN Thrown
        ELSE LET asserts == /\ Len(ranges) = Len(mn.notes)
                            /\ Len(ranges) = Len(notes)
             IN  [status |-> "ok",
                  variant |-> "midi.hpp",
                  ranges |-> ranges,
                  midi_notes |-> mn.notes,
                  notes |-> notes,
                  asserts_hold |-> asserts,
                  note_calls |-> <<>>,
                  seq_calls |-> <<>>,
                  events |-> IF asserts
                             THEN hpp_events_from(ranges, mn.notes, notes, 1)
                             ELSE <<>>]

----------------------------------------------------------------------------
(* The timeline specification *)

\* the leaves of the trees translated: a Rest and two different Notes
TimelineLeaves == {Rest, Note(0, Unit, 1, 1), Note(1, 1, 0, Unit)}

\* a Note of every delay and gate, as the whole cell of a measure
LoneNotes == {Note(2, Unit, d, g) : d \in 0..Unit, g \in 0..Unit}

TimelineCells == CellsOver(TimelineLeaves) \cup LoneNotes

\* a second measure, in 3/4
TailMeasure ==
    Measure(Sequence(<<Note(3, 1, 1, Unit), Rest>>),
            [numerator |-> 3, denominator |-> 4])

\* Phrase = std::vector<Measure>: one measure, or one followed by TailMeasure
Phrases ==
    LET firsts == {Measure(c, ts) : c \in TimelineCells, ts \in TimeSignatures}
    IN  {<<m>> : m \in firsts} \cup {<<m, TailMeasure>> : m \in firsts}

\* the tuning of the timeline test, and the empty tuning
TimelineTunings ==
    {[intervals |-> <<0, 50, 100, 150, 200>>, octave |-> 1200],
     [intervals |-> <<>>, octave |-> 1200]}

\* one call of translate_to_midi_timeline (midi.cpp)
TranslateToMidiTimeline ==
    /\ timeline.status = "none"
    /\ timeline' = translate_to_midi_timeline(phrase, tl_args.sample_rate,
                        tl_args.bpm, tl_args.tuning, tl_args.base_frequency)
    /\ UNCHANGED <<phrase, tl_args>>
    /\ UNCHANGED <<viewVars, modifyVars, midiVars>>

\* one call of the inline translate_to_midi_timeline (midi.hpp), whose
\* measures hold a Sequence
TranslateToMidiTimelineHpp ==
    /\ timeline.status = "none"
    /\ \A k \in 1..Len(phrase) : IsSequence(phrase[k].cell)
    /\ timeline' = hpp_translate_to_midi_timeline(phrase, tl_args.sample_rate,
                        tl_args.bpm, tl_args.tuning, tl_args.base_frequency)
    /\ UNCHANGED <<phrase, tl_args>>
    /\ UNCHANGED <<viewVars, modifyVars, midiVars>>

TimelineInit ==
    /\ phrase \in Phrases
    /\ tl_args \in [sample_rate : SampleRates, bpm : Bpms,
                    tuning : TimelineTunings, base_frequency : {440}]
    /\ timeline = NoValue
    /\ ViewIdle /\ ModifyIdle /\ MidiIdle

TimelineNext == TranslateToMidiTimeline \/ TranslateToMidiTimelineHpp

TimelineSpec == TimelineInit /\ [][TimelineNext]_vars

\* translate_to_midi_timeline has returned a timeline
Translated == timeline.status = "ok"

\* ... and it was the function of midi.cpp
TranslatedCpp == Translated /\ timeline.variant = "midi.cpp"

----------------------------------------------------------------------------
(* C3 *)

\* C3: the k-th Note (k from 0) yields the three consecutive timeline entries
\* 3k, 3k+1, 3k+2: PitchBend at the begin sample, NoteOn at the same begin
\* sample, NoteOff with the NoteOn's note number at the end sample; the
\* PitchBend precedes the NoteOn.
C3_BendThenOnThenOff ==
    Translated =>
        LET ev == timeline.events
            n == Len(timeline.notes)
        IN  /\ Len(ev) = 3 * n
            /\ \A k \in 0..(n - 1) :
                  /\ ev[3 * k + 1].event.kind = "PitchBend"
                  /\ ev[3 * k + 1].sample = timeline.ranges[k + 1].begin
                  /\ ev[3 * k + 2].event.kind = "NoteOn"
                  /\ ev[3 * k + 2].sample = timeline.ranges[k + 1].begin
                  /\ ev[3 * k + 3].event.kind = "NoteOff"
                  /\ ev[3 * k + 3].event.note = ev[3 * k + 2].event.note
                  /\ ev[3 * k + 3].sample = timeline.ranges[k + 1].end

----------------------------------------------------------------------------
(* C4 *)

RECURSIVE NoteCount(_)
RECURSIVE NoteCountFrom(_, _)
\* the number of Notes among the children from child k on
NoteCountFrom(cells, k) ==
    IF k > Len(cells) THEN 0
    ELSE NoteCount(cells[k]) + NoteCountFrom(cells, k + 1)

\* the number of Notes in a tree
NoteCount(c) ==
    IF IsNote(c) THEN 1 ELSE IF IsRest(c) THEN 0 ELSE NoteCountFrom(c.cells, 1)

RECURSIVE PhraseNoteCount(_, _)
\* the number of Notes in the measures from measure k on
PhraseNoteCount(ph, k) ==
    IF k > Len(ph) THEN 0
    ELSE NoteCount(ph[k].cell) + PhraseNoteCount(ph, k + 1)

\* C4: for every phrase and non-empty tuning the sample ranges, the
\* MicrotonalNotes and the flattened Notes have the same length, the number
\* of Notes in the tree; entry k of each belongs to the same Note; the two
\* asserts hold.
C4_ParallelListsAgree ==
    Translated =>
        LET n == PhraseNoteCount(phrase, 1)
        IN  /\ timeline.asserts_hold
            /\ Len(timeline.ranges) = n
            /\ Len(timeline.midi_notes) = n
            /\ Len(timeline.notes) = n
            /\ \A k \in 1..n :
                  LET m == create_midi_note(timeline.notes[k].interval,
                                            tl_args.tuning,
                                            base_midi_note(tl_args.base_frequency))
                  IN  /\ timeline.midi_notes[k].note = m.note
                      /\ timeline.midi_notes[k].pitch_bend = m.pitch_bend
            /\ (timeline.variant = "midi.cpp" =>
                   /\ Len(timeline.note_calls) = n
                   /\ \A k \in 1..n :
                         /\ timeline.note_calls[k].note = timeline.notes[k]
                         /\ timeline.note_calls[k].range = timeline.ranges[k])

\* a translated phrase of two measures whose first holds a Rest, a nested
\* Sequence and at least three Notes, two of them different
C4_Witness ==
    /\ TranslatedCpp
    /\ Len(phrase) = 2
    /\ IsSequence(phrase[1].cell)
    /\ \E i, j \in 1..Len(phrase[1].cell.cells) :
          /\ IsRest(phrase[1].cell.cells[i])
          /\ IsSequence(phrase[1].cell.cells[j])
          /\ NoteCount(phrase[1].cell.cells[j]) = 2
    /\ Len(timeline.notes) >= 4
    /\ timeline.notes[1] # timeline.notes[2]

----------------------------------------------------------------------------
(* C5 *)

RECURSIVE SumSeq(_, _)
\* the sum of the entries of a sequence of numbers from entry k on
SumSeq(q, k) == IF k > Len(q) THEN 0 ELSE q[k] + SumSeq(q, k + 1)

\* C5 as stated: at every Sequence the shares handed to the direct children
\* sum to exactly total_samples and the running offset after the last child
\* is offset + total_samples.
C5_SharesSumToTotal ==
    TranslatedCpp =>
        \A k \in 1..Len(timeline.seq_calls) :
            LET call == timeline.seq_calls[k]
            IN  /\ SumSeq(call.shares, 1) = call.total_samples
                /\ call.end_offset = call.offset + ToFloat(call.total_samples)

\* C5 amended: each of the n direct children is handed floor(total_samples / n)
\* samples (equal shares), so the shares sum to n * floor(total_samples / n),
\* which falls short of total_samples by total_samples mod n; the running
\* float offset advances by the unrounded total_samples / n per child and is
\* offset + total_samples after the last child when n >= 1; an empty Sequence
\* hands out nothing and leaves the offset where it was.
C5_EqualTruncatedShares ==
    TranslatedCpp =>
        \A k \in 1..Len(timeline.seq_calls) :
            LET call == timeline.seq_calls[k]
                n == call.size
            IN  /\ Len(call.shares) = n
                /\ n = 0 => call.end_offset = call.offset
                /\ n >= 1 =>
                      /\ \A i \in 1..n :
                            call.shares[i] = call.total_samples \div n
                      /\ SumSeq(call.shares, 1)
                             = call.total_samples - (call.total_samples % n)
                      /\ call.end_offset
                             = call.offset + ToFloat(call.total_samples)

\* a measure of three children whose total is not divisible by three, holding
\* a Sequence of two children whose odd total is not divisible by two
C5_Witness ==
    /\ TranslatedCpp
    /\ \E k \in 2..Len(timeline.seq_calls) :
          /\ timeline.seq_calls[k].size = 2
          /\ timeline.seq_calls[k].total_samples % 2 = 1
    /\ timeline.seq_calls[1].size = 3
    /\ timeline.seq_calls[1].total_samples % 3 # 0

----------------------------------------------------------------------------
(* C6 *)

\* round to nearest of a / b, for a >= 0 and b > 0
RoundDiv(a, b) == (2 * a + b) \div (2 * b)

\* C6 as stated: a Note emits the one range begin = offset + delay_samples,
\* end = begin + sound_samples with delay_samples = round(total * delay) and
\* sound_samples = round((total - delay_samples) * gate).
C6_RoundedRange ==
    TranslatedCpp =>
        \A k \in 1..Len(timeline.note_calls) :
            LET call == timeline.note_calls[k]
                delay_samples == RoundDiv(call.total_samples * call.note.delay, Unit)
                sound_samples ==
                    RoundDiv((call.total_samples - delay_samples) * call.note.gate,
                             Unit)
            IN  /\ call.range.begin = ToUint32(call.offset + ToFloat(delay_samples))
                /\ call.range.end = call.range.begin + sound_samples

\* C6 amended: delay_samples = trunc(total * delay) and sound_samples =
\* trunc((total - delay_samples) * gate), the conversions to uint32 truncating
\* toward zero; begin = trunc(offset + delay_samples), end = begin +
\* sound_samples; one range per Note, none for a Rest.
C6_TruncatedRange ==
    TranslatedCpp =>
        /\ Len(timeline.ranges) = PhraseNoteCount(phrase, 1)
        /\ Len(timeline.note_calls) = Len(timeline.ranges)
        /\ \A k \in 1..Len(timeline.note_calls) :
              LET call == timeline.note_calls[k]
                  delay_samples == (call.total_samples * call.note.delay) \div Unit
                  sound_samples ==
                      ((call.total_samples - delay_samples) * call.note.gate)
                          \div Unit
              IN  /\ timeline.ranges[k] = call.range
                  /\ call.range.begin
                         = ToUint32(call.offset + ToFloat(delay_samples))
                  /\ call.range.end = call.range.begin + sound_samples

\* a Note whose total * delay has a fractional part of one half, beside a
\* Rest, at a non-zero offset
C6_Witness ==
    /\ TranslatedCpp
    /\ \E k \in 1..Len(timeline.note_calls) :
          LET call == timeline.note_calls[k]
          IN  /\ call.offset > 0
              /\ call.note.delay > 0
              /\ call.note.gate > 0
              /\ 2 * ((call.total_samples * call.note.delay) % Unit) >= Unit
    /\ \E i \in 1..Len(phrase[1].cell.cells) : IsRest(phrase[1].cell.cells[i])

----------------------------------------------------------------------------
(* ConstPatternView (include/sequence/pattern.hpp)                          *)
(* The read-only view shares the variables of the mutable one; its          *)
(* positions are "const_loop", "const_done", "const_threw", "const_fault".  *)

\* a plausible slip: only the interval list is checked
ConstPatternViewThrows_IntervalsOnly(size, p) == Len(p.intervals) = 0

\* ConstPatternView::ConstPatternView : the condition under which the
\* constructor throws std::invalid_argument
ConstPatternViewThrows(size, p) == Len(p.intervals) = 0 \/ size = 0

\* ConstIterator::ConstIterator : index_(index), taken as given
ConstIteratorInit(index, size) == index

\* ConstPatternView::begin()
ConstViewBegin(size, p) == ConstIteratorInit(p.offset, size)

\* ConstPatternView::end()
ConstViewEnd(size) == ConstIteratorInit(size, size)

\* ConstIterator::operator++ : add the current interval, clamp to size,
\* advance the interval cursor cyclically
ConstIteratorIncrement(idx, iidx, size, p) ==
    [index_ |-> Min(idx + p.intervals[iidx + 1], size),
     interval_index_ |-> IF iidx + 1 >= Len(p.intervals) THEN 0 ELSE iidx + 1]

\* the constructor of the read-only view followed by begin() of the range-for
ConstViewConstruct ==
    /\ view_pc = "idle"
    /\ IF ConstPatternViewThrows(vec_size, view_pattern)
       THEN /\ view_pc' = "const_threw"
            /\ UNCHANGED <<index_, interval_index_>>
       ELSE /\ view_pc' = "const_loop"
            /\ index_' = ConstViewBegin(vec_size, view_pattern)
            /\ interval_index_' = 0
    /\ UNCHANGED <<vec_size, view_pattern, visited>>
    /\ UNCHANGED <<modifyVars, midiVars, timelineVars>>

\* one pass of `for (auto const &c : view)`: it != end(), *it, ++it.
\* operator* reads vec_[index_] unchecked; with index_ >= size the read is
\* out of bounds (undefined behaviour): the program either goes on with
\* whatever it read or faults.
ConstLoopVisit ==
    /\ view_pc = "const_loop"
    /\ IteratorNotEqual(index_, ConstViewEnd(vec_size))
    /\ Len(visited) < MaxVisits
    /\ visited' = Append(visited, index_)
    /\ \/ /\ LET nxt == ConstIteratorIncrement(index_, interval_index_,
                                               vec_size, view_pattern)
             IN  /\ index_' = nxt.index_
                 /\ interval_index_' = nxt.interval_index_
          /\ UNCHANGED view_pc
       \/ /\ index_ >= vec_size
          /\ view_pc' = "const_fault"
          /\ UNCHANGED <<index_, interval_index_>>
    /\ UNCHANGED <<vec_size, view_pattern>>
    /\ UNCHANGED <<modifyVars, midiVars, timelineVars>>

\* the range-for ends when it != end() is false
ConstLoopExit ==
    /\ view_pc = "const_loop"
    /\ ~IteratorNotEqual(index_, ConstViewEnd(vec_size))
    /\ view_pc' = "const_done"
    /\ UNCHANGED <<vec_size, view_pattern, index_, interval_index_, visited>>
    /\ UNCHANGED <<modifyVars, midiVars, timelineVars>>

ConstViewNext == ConstViewConstruct \/ ConstLoopVisit \/ ConstLoopExit

\* both views, over the same containers and patterns
ViewsSpec == ViewInit /\ [][ViewNext \/ ConstViewNext]_vars

----------------------------------------------------------------------------
(* C11 *)

C11_WitnessConst ==
    /\ view_pc = "const_threw"
    /\ vec_size = 0
    /\ Len(view_pattern.intervals) >= 1

----------------------------------------------------------------------------
(* C12 *)

\* C12: for N >= 1 and a Pattern with intervals >= 1 (offset > N included)
\* the read-only view visits exactly the index sequence the mutable view
\* visits, and neither view dereferences an index >= N.
C12_ConstViewVisitsSameIndices ==
    (vec_size >= 1 /\ view_pc # "idle" /\ view_pattern.intervals # <<>>
        /\ PositiveIntervals(view_pattern)) =>
        /\ \A k \in 1..Len(visited) : visited[k] < vec_size
        /\ view_pc \in {"done", "const_done"} =>
              visited = ViewIndices(vec_size, view_pattern)

----------------------------------------------------------------------------
(* The transforms of src/modify.cpp that take no Pattern.  One call is one  *)
(* action: `cell` is the caller's Cell, `args` the other arguments, and     *)
(* `result` what the call returned, or Thrown.                              *)

\* longest Sequence of leaves handed to these transforms
MaxFlat == 4
\* most direct children of a Sequence that holds Sequences
MaxNest == 2

\* the Cells handed to these transforms: a Rest and two Notes that differ in
\* every field, alone, in a Sequence of up to MaxFlat of them, or in a
\* Sequence of up to MaxNest leaves and Sequences of leaves
EditLeaves == {Rest, Note(0, 1, 1, Unit), Note(1, Unit, 0, 1)}
EditCells ==
    LET inner == {Sequence(cs) : cs \in SeqsOf(EditLeaves, 0, MaxSubCells)}
    IN  EditLeaves
            \cup {Sequence(cs) : cs \in SeqsOf(EditLeaves, 0, MaxFlat)}
            \cup {Sequence(cs) : cs \in SeqsOf(EditLeaves \cup inner, 0, MaxNest)}

\* largest |amount| of shift_pitch
MaxShift == 2

RECURSIVE shift_pitch(_, _)
\* a plausible slip: the children of a Sequence are not visited
shift_pitch_Shallow(c, d) ==
    IF IsNote(c) THEN [c EXCEPT !.interval = @ + d] ELSE c

\* auto shift_pitch(Cell cell, int amount): note.interval += amount for a
\* Note, nothing for a Rest, c = shift_pitch(c, amount) for every child of a
\* Sequence
shift_pitch(c, d) ==
    IF IsNote(c) THEN [c EXCEPT !.interval = @ + d]
    ELSE IF IsRest(c) THEN c
    ELSE Sequence([i \in 1..Len(c.cells) |-> shift_pitch(c.cells[i], d)])

\* one call of shift_pitch
ShiftPitch ==
    /\ op = "none"
    /\ \E d \in (-MaxShift)..MaxShift :
          /\ args' = [amount |-> d]
          /\ result' = Ok(shift_pitch(cell, d))
    /\ op' = "shift_pitch"
    /\ UNCHANGED <<cell, pattern, amount>>
    /\ UNCHANGED <<viewVars, midiVars, timelineVars>>

\* min and max of the randomize_* calls, in 1/Unit for the float fields: the
\* range [0,1] and one value on either side of it
RandomBounds == (-1)..(Unit + 1)

\* a plausible slip: only the order of the bounds is checked
randomize_throws_OrderOnly(lo, hi, field) == lo > hi

\* the argument checks of randomize_intervals / _velocity / _delay / _gate:
\* min > max throws; for the float fields a bound outside [0,1] throws
randomize_throws(lo, hi, field) ==
    \/ lo > hi
    \/ /\ field # "interval"
       /\ (lo < 0 \/ lo > Unit \/ hi < 0 \/ hi > Unit)

RECURSIVE randomize(_, _, _, _)
RECURSIVE randomize_children(_, _, _, _, _)

\* the loop `c = randomize_*(c, min, max)` over the children from child k
\* on: the child vectors the draws can produce
randomize_children(cells, k, lo, hi, field) ==
    IF k > Len(cells) THEN {<<>>}
    ELSE {<<x.cell>> \o rest :
              x \in randomize(cells[k], lo, hi, field),
              rest \in randomize_children(cells, k + 1, lo, hi, field)}

\* randomize_intervals / _velocity / _delay / _gate, which differ in the
\* field and its check: the set of values the call can return (one per
\* outcome of the draws dis(gen) in [min, max]), or Thrown, decided before
\* the visit
randomize(c, lo, hi, field) ==
    IF randomize_throws(lo, hi, field) THEN {Thrown}
    ELSE IF IsNote(c) THEN {Ok([c EXCEPT ![field] = x]) : x \in lo..hi}
    ELSE IF IsRest(c) THEN {Ok(c)}
    ELSE {Ok(Sequence(v)) : v \in randomize_children(c.cells, 1, lo, hi, field)}

\* auto randomize_intervals(Cell cell, int min, int max)
randomize_intervals(c, lo, hi) == randomize(c, lo, hi, "interval")
\* auto randomize_velocity(Cell cell, float min, float max)
randomize_velocity(c, lo, hi) == randomize(c, lo, hi, "velocity")
\* auto randomize_delay(Cell cell, float min, float max)
randomize_delay(c, lo, hi) == randomize(c, lo, hi, "delay")
\* auto randomize_gate(Cell cell, float min, float max)
randomize_gate(c, lo, hi) == randomize(c, lo, hi, "gate")

\* one call of a transform that takes (cell, min, max); the argument is taken
\* by value, the caller's cell is untouched
RandomizeCall(name, lo, hi, outcomes) ==
    /\ op = "none"
    /\ args' = [min |-> lo, max |-> hi]
    /\ result' \in outcomes
    /\ op' = name
    /\ UNCHANGED <<cell, pattern, amount>>
    /\ UNCHANGED <<viewVars, midiVars, timelineVars>>

RandomizeIntervals ==
    \E lo \in RandomBounds, hi \in RandomBounds :
        RandomizeCall("randomize_intervals", lo, hi,
                      randomize_intervals(cell, lo, hi))

RandomizeVelocity ==
    \E lo \in RandomBounds, hi \in RandomBounds :
        RandomizeCall("randomize_velocity", lo, hi,
                      randomize_velocity(cell, lo, hi))

RandomizeDelay ==
    \E lo \in RandomBounds, hi \in RandomBounds :
        RandomizeCall("randomize_delay", lo, hi, randomize_delay(cell, lo, hi))

RandomizeGate ==
    \E lo \in RandomBounds, hi \in RandomBounds :
        RandomizeCall("randomize_gate", lo, hi, randomize_gate(cell, lo, hi))

\* largest count handed to repeat, stretch and compress
MaxCount == 3

\* auto repeat(Cell const &cell, std::size_t count): a Sequence of count
\* copies of the cell; no check of count
repeat(c, count) == Sequence([i \in 1..count |-> c])

RECURSIVE stretch(_, _)
\* a plausible slip: child Sequences are repeated whole instead of entered
stretch_Shallow(c, count) ==
    IF IsSequence(c)
    THEN Sequence([i \in 1..Len(c.cells) |-> repeat(c.cells[i], count)])
    ELSE repeat(c, count)

\* auto stretch(Cell const &cell, std::size_t amount): repeat(leaf, amount)
\* for a Note or Rest, stretch of every child for a Sequence
stretch(c, count) ==
    IF IsSequence(c)
    THEN Sequence([i \in 1..Len(c.cells) |-> stretch(c.cells[i], count)])
    ELSE repeat(c, count)

\* one call of repeat
Repeat ==
    /\ op = "none"
    /\ \E n \in 0..MaxCount :
          /\ args' = [count |-> n]
          /\ result' = Ok(repeat(cell, n))
    /\ op' = "repeat"
    /\ UNCHANGED <<cell, pattern, amount>>
    /\ UNCHANGED <<viewVars, midiVars, timelineVars>>

\* one call of stretch
Stretch ==
    /\ op = "none"
    /\ \E n \in 0..MaxCount :
          /\ args' = [count |-> n]
          /\ result' = Ok(stretch(cell, n))
    /\ op' = "stretch"
    /\ UNCHANGED <<cell, pattern, amount>>
    /\ UNCHANGED <<viewVars, midiVars, timelineVars>>

\* auto extract(Cell const &cell, std::size_t index): a Note or Rest is
\* returned as it is; a Sequence returns cells[index] or throws
extract(c, index) ==
    IF ~IsSequence(c) THEN Ok(c)
    ELSE IF index >= Len(c.cells) THEN Thrown
    ELSE Ok(c.cells[index + 1])

\* auto first(Cell const &cell) of modify.cpp: extract(cell, 0u)
first(c) == extract(c, 0)

\* auto last(Cell const &cell) of modify.cpp: throws for an empty Sequence,
\* else cells.back()
last(c) ==
    IF ~IsSequence(c) THEN Ok(c)
    ELSE IF Len(c.cells) = 0 THEN Thrown
    ELSE Ok(c.cells[Len(c.cells)])

\* inline first(Cell const &cell) of modify.hpp: Rest{} for an empty
\* Sequence, else cells.front()
hpp_first(c) ==
    IF ~IsSequence(c) THEN Ok(c)
    ELSE IF Len(c.cells) = 0 THEN Ok(Rest)
    ELSE Ok(c.cells[1])

\* inline last(Cell const &cell) of modify.hpp: Rest{} for an empty Sequence,
\* else cells.back()
hpp_last(c) ==
    IF ~IsSequence(c) THEN Ok(c)
    ELSE IF Len(c.cells) = 0 THEN Ok(Rest)
    ELSE Ok(c.cells[Len(c.cells)])

\* one call of extract, with an index up to one past the longest Sequence
Extract ==
    /\ op = "none"
    /\ \E i \in 0..(MaxFlat + 1) :
          /\ args' = [index |-> i]
          /\ result' = extract(cell, i)
    /\ op' = "extract"
    /\ UNCHANGED <<cell, pattern, amount>>
    /\ UNCHANGED <<viewVars, midiVars, timelineVars>>

\* one call of a transform that takes the cell only
UnaryCall(name, value) ==
    /\ op = "none"
    /\ args' = NoValue
    /\ result' = value
    /\ op' = name
    /\ UNCHANGED <<cell, pattern, amount>>
    /\ UNCHANGED <<viewVars, midiVars, timelineVars>>

First == UnaryCall("first", first(cell))
Last == UnaryCall("last", last(cell))
FirstHpp == UnaryCall("hpp_first", hpp_first(cell))
LastHpp == UnaryCall("hpp_last", hpp_last(cell))

\* largest |amount| of rotate, above MaxFlat so that over-shifts occur
MaxRotate == 5

\* std::rotate(begin, begin + middle, end): the element at index middle
\* becomes the first one
std_rotate(cells, middle) ==
    [i \in 1..Len(cells) |-> cells[((i - 1 + middle) % Len(cells)) + 1]]

\* amount = (amount % size + size) % size, with the truncating % of C++
rotate_normalize(a, size) == TruncRem(TruncRem(a, size) + size, size)

\* inline rotate(Cell cell, int amount) of modify.hpp: no-op for a Note, a
\* Rest and an empty Sequence; else std::rotate about the normalized amount
hpp_rotate(c, a) ==
    IF ~IsSequence(c) \/ Len(c.cells) = 0 THEN c
    ELSE Sequence(std_rotate(c.cells, rotate_normalize(a, Len(c.cells))))

\* a plausible slip: the amount is not negated
rotate_NotNegated(c, a) == hpp_rotate(c, a)

\* auto rotate(Cell cell, int amount) of modify.cpp: amount *= -1 first, then
\* as in the header
rotate(c, a) ==
    IF ~IsSequence(c) \/ Len(c.cells) = 0 THEN c
    ELSE Sequence(std_rotate(c.cells, rotate_normalize(-a, Len(c.cells))))

\* one call of rotate (modify.cpp)
Rotate ==
    /\ op = "none"
    /\ \E a \in (-MaxRotate)..MaxRotate :
          /\ args' = [amount |-> a]
          /\ result' = Ok(rotate(cell, a))
    /\ op' = "rotate"
    /\ UNCHANGED <<cell, pattern, amount>>
    /\ UNCHANGED <<viewVars, midiVars, timelineVars>>

\* one call of rotate (modify.hpp)
RotateHpp ==
    /\ op = "none"
    /\ \E a \in (-MaxRotate)..MaxRotate :
          /\ args' = [amount |-> a]
          /\ result' = Ok(hpp_rotate(cell, a))
    /\ op' = "hpp_rotate"
    /\ UNCHANGED <<cell, pattern, amount>>
    /\ UNCHANGED <<viewVars, midiVars, timelineVars>>

\* the default argument of flip: Note n = Note{0, 1.f, 0.f, 1.f}
DefaultFlipNote == Note(0, Unit, 0, Unit)

\* the Notes handed to flip: one that differs from the default in every
\* field, and the default itself
FlipNotes == {Note(2, 1, 1, 1), DefaultFlipNote}

RECURSIVE flip(_, _)
\* auto flip(Cell const &cell, Note n): a Note becomes Rest{}, a Rest becomes
\* n, and every child c of a Sequence becomes flip(c), the call that leaves
\* n to its default
flip(c, n) ==
    IF IsNote(c) THEN Rest
    ELSE IF IsRest(c) THEN n
    ELSE Sequence([i \in 1..Len(c.cells) |-> flip(c.cells[i], DefaultFlipNote)])

\* one call of flip
Flip ==
    /\ op = "none"
    /\ \E n \in FlipNotes :
          /\ args' = [n |-> n]
          /\ result' = Ok(flip(cell, n))
    /\ op' = "flip"
    /\ UNCHANGED <<cell, pattern, amount>>
    /\ UNCHANGED <<viewVars, midiVars, timelineVars>>

RECURSIVE swing(_, _, _)
\* a plausible slip: the children of a nested Sequence take the parity of
\* that Sequence's own position instead of their own
swing_ParityInherited(c, a, is_odd) ==
    IF a < 0 \/ a > Unit THEN Thrown
    ELSE IF IsNote(c) THEN Ok([c EXCEPT !.delay = IF is_odd THEN a ELSE 0])
    ELSE IF IsRest(c) THEN Ok(c)
    ELSE Ok(Sequence([i \in 1..Len(c.cells) |->
             IF IsSequence(c.cells[i])
             THEN Sequence([j \in 1..Len(c.cells[i].cells) |->
                      swing(c.cells[i].cells[j], a, (i - 1) % 2 = 1).cell])
             ELSE swing(c.cells[i], a, (i - 1) % 2 = 1).cell]))

\* auto swing(Cell cell, float amount, bool is_odd): throws for an amount
\* outside [0,1]; note.delay = is_odd ? amount : 0 for a Note, nothing for a
\* Rest, c = swing(c, amount, (i % 2) == 1) for child i of a Sequence.  The
\* recursive calls pass the check the outer call has passed.
swing(c, a, is_odd) ==
    IF a < 0 \/ a > Unit THEN Thrown
    ELSE IF IsNote(c) THEN Ok([c EXCEPT !.delay = IF is_odd THEN a ELSE 0])
    ELSE IF IsRest(c) THEN Ok(c)
    ELSE Ok(Sequence([i \in 1..Len(c.cells) |->
                         swing(c.cells[i], a, (i - 1) % 2 = 1).cell]))

\* one call of swing(cell, amount), is_odd left to its default false
Swing ==
    /\ op = "none"
    /\ \E a \in Amounts :
          /\ args' = [amount |-> a]
          /\ result' = swing(cell, a, FALSE)
    /\ op' = "swing"
    /\ UNCHANGED <<cell, pattern, amount>>
    /\ UNCHANGED <<viewVars, midiVars, timelineVars>>

\* the copy_if of compress with its counter i: the children at the 0-based
\* positions i, from position k - 1 on, for which i % count == rem
RECURSIVE copy_if(_, _, _, _)
copy_if(cells, k, count, rem) ==
    IF k > Len(cells) THEN <<>>
    ELSE (IF (k - 1) % count = rem THEN <<cells[k]>> ELSE <<>>)
             \o copy_if(cells, k + 1, count, rem)

\* a plausible slip: the last child of every group of `amount` is kept
compress_KeepsLast(c, count) ==
    IF count < 1 THEN Thrown
    ELSE IF ~IsSequence(c) THEN Ok(c)
    ELSE Ok(Sequence(copy_if(c.cells, 1, count, count - 1)))

\* auto compress(Cell const &cell, std::size_t amount): throws for amount < 1;
\* a Note or Rest is returned as it is; of a Sequence the children with
\* (i++ % amount) == 0 are copied, as they are
compress(c, count) ==
    IF count < 1 THEN Thrown
    ELSE IF ~IsSequence(c) THEN Ok(c)
    ELSE Ok(Sequence(copy_if(c.cells, 1, count, 0)))

\* one call of compress
Compress ==
    /\ op = "none"
    /\ \E n \in 0..MaxCount :
          /\ args' = [count |-> n]
          /\ result' = compress(cell, n)
    /\ op' = "compress"
    /\ UNCHANGED <<cell, pattern, amount>>
    /\ UNCHANGED <<viewVars, midiVars, timelineVars>>

\* longest second Sequence handed to concat and merge
MaxOther == 2

\* the second Cell handed to concat and merge: a leaf or a Sequence of up to
\* MaxOther leaves
OtherCells ==
    EditLeaves \cup {Sequence(cs) : cs \in SeqsOf(EditLeaves, 0, MaxOther)}

\* auto concat(Cell const &cell_a, Cell const &cell_b): two leaves make a
\* Sequence of the two; a leaf is inserted before or pushed after the
\* children of a Sequence; the children of two Sequences are joined
concat(cell_a, cell_b) ==
    IF ~IsSequence(cell_a) /\ ~IsSequence(cell_b)
    THEN Sequence(<<cell_a, cell_b>>)
    ELSE IF ~IsSequence(cell_a) THEN Sequence(<<cell_a>> \o cell_b.cells)
    ELSE IF ~IsSequence(cell_b) THEN Sequence(Append(cell_a.cells, cell_b))
    ELSE Sequence(cell_a.cells \o cell_b.cells)

\* merge that stops at the end of the shorter Sequence
merge_MinSize(cell_a, cell_b) ==
    IF ~IsSequence(cell_a) /\ ~IsSequence(cell_b)
    THEN Sequence(<<cell_a, cell_b>>)
    ELSE IF ~IsSequence(cell_a)
    THEN Sequence([k \in 1..(2 * Len(cell_b.cells)) |->
                      IF k % 2 = 1 THEN cell_a ELSE cell_b.cells[k \div 2]])
    ELSE IF ~IsSequence(cell_b)
    THEN Sequence([k \in 1..(2 * Len(cell_a.cells)) |->
                      IF k % 2 = 1 THEN cell_a.cells[(k + 1) \div 2] ELSE cell_b])
    ELSE IF cell_a.cells = <<>> THEN cell_b
    ELSE IF cell_b.cells = <<>> THEN cell_a
    ELSE LET max_size == Min(Len(cell_a.cells), Len(cell_b.cells))
         IN  Sequence([k \in 1..(2 * max_size) |->
                 LET i == (k - 1) \div 2
                 IN  IF k % 2 = 1
                     THEN cell_a.cells[(i % Len(cell_a.cells)) + 1]
                     ELSE cell_b.cells[(i % Len(cell_b.cells)) + 1]])

\* auto merge(Cell const &cell_a, Cell const &cell_b): two leaves make a
\* Sequence of the two; a leaf is pushed before (after) every child of a
\* Sequence; of two Sequences an empty one gives the other, otherwise for
\* i < max(size_a, size_b) the children a[i % size_a], b[i % size_b] are pushed
merge(cell_a, cell_b) ==
    IF ~IsSequence(cell_a) /\ ~IsSequence(cell_b)
    THEN Sequence(<<cell_a, cell_b>>)
    ELSE IF ~IsSequence(cell_a)
    THEN Sequence([k \in 1..(2 * Len(cell_b.cells)) |->
                      IF k % 2 = 1 THEN cell_a ELSE cell_b.cells[k \div 2]])
    ELSE IF ~IsSequence(cell_b)
    THEN Sequence([k \in 1..(2 * Len(cell_a.cells)) |->
                      IF k % 2 = 1 THEN cell_a.cells[(k + 1) \div 2] ELSE cell_b])
    ELSE IF cell_a.cells = <<>> THEN cell_b
    ELSE IF cell_b.cells = <<>> THEN cell_a
    ELSE LET max_size == Max(Len(cell_a.cells), Len(cell_b.cells))
         IN  Sequence([k \in 1..(2 * max_size) |->
                 LET i == (k - 1) \div 2
                 IN  IF k % 2 = 1
                     THEN cell_a.cells[(i % Len(cell_a.cells)) + 1]
                     ELSE cell_b.cells[(i % Len(cell_b.cells)) + 1]])

\* one call of a transform of two Cells
BinaryCall(name, other, value) ==
    /\ op = "none"
    /\ args' = [other |-> other]
    /\ result' = Ok(value)
    /\ op' = name
    /\ UNCHANGED <<cell, pattern, amount>>
    /\ UNCHANGED <<viewVars, midiVars, timelineVars>>

Concat == \E b \in OtherCells : BinaryCall("concat", b, concat(cell, b))
Merge == \E b \in OtherCells : BinaryCall("merge", b, merge(cell, b))

\* largest index handed to divide, past the end of the longest Sequence
MaxIndex == 5

\* divide that puts the child at `index` into the first Sequence
divide_IndexInFirst(c, index) ==
    IF ~IsSequence(c) THEN Sequence(<<c>>)
    ELSE LET mid == Min(index + 1, Len(c.cells))
         IN  Sequence(<<Sequence(SubSeq(c.cells, 1, mid)),
                        Sequence(SubSeq(c.cells, mid + 1, Len(c.cells)))>>)

\* auto divide(Cell const &cell, std::size_t index): a Note or Rest is
\* wrapped in a Sequence; of a Sequence, index = min(index, size) and the
\* result holds Sequence{[begin, mid)} and Sequence{[mid, end)}
divide(c, index) ==
    IF ~IsSequence(c) THEN Sequence(<<c>>)
    ELSE LET mid == Min(index, Len(c.cells))
         IN  Sequence(<<Sequence(SubSeq(c.cells, 1, mid)),
                        Sequence(SubSeq(c.cells, mid + 1, Len(c.cells)))>>)

\* one call of divide
Divide ==
    /\ op = "none"
    /\ \E n \in 0..MaxIndex :
          /\ args' = [index |-> n]
          /\ result' = Ok(divide(cell, n))
    /\ op' = "divide"
    /\ UNCHANGED <<cell, pattern, amount>>
    /\ UNCHANGED <<viewVars, midiVars, timelineVars>>

\* reverse that leaves the child Sequences as they are
reverse_Shallow(c) ==
    IF IsSequence(c)
    THEN Sequence([i \in 1..Len(c.cells) |-> c.cells[Len(c.cells) + 1 - i]])
    ELSE c

RECURSIVE reverse(_)
\* auto reverse(Cell cell): std::ranges::reverse of a Sequence's children,
\* then reverse of every child; a Note or Rest is returned as it is
reverse(c) ==
    IF IsSequence(c)
    THEN Sequence([i \in 1..Len(c.cells) |->
                      reverse(c.cells[Len(c.cells) + 1 - i])])
    ELSE c

Reverse == UnaryCall("reverse", Ok(reverse(cell)))

EditInit ==
    /\ cell \in EditCells
    /\ pattern = NoValue
    /\ amount = 0
    /\ args = NoValue
    /\ result = NoValue
    /\ op = "none"
    /\ ViewIdle /\ MidiIdle /\ TimelineIdle

EditNext ==
    \/ ShiftPitch
    \/ RandomizeIntervals \/ RandomizeVelocity \/ RandomizeDelay \/ RandomizeGate
    \/ Repeat \/ Stretch
    \/ Extract \/ First \/ Last \/ FirstHpp \/ LastHpp
    \/ Rotate \/ RotateHpp
    \/ Flip
    \/ Swing
    \/ Compress
    \/ Concat \/ Merge \/ Divide
    \/ Reverse

EditSpec == EditInit /\ [][EditNext]_vars

----------------------------------------------------------------------------
(* C13 *)

RECURSIVE ShiftedBy(_, _, _)
\* `after` is `before` with every Note's pitch raised by d and nothing else
\* changed: Rests are Rests, Sequences keep their child count
ShiftedBy(before, after, d) ==
    IF IsNote(before)
    THEN /\ IsNote(after)
         /\ after.interval = before.interval + d
         /\ after.velocity = before.velocity
         /\ after.delay = before.delay
         /\ after.gate = before.gate
    ELSE IF IsRest(before) THEN IsRest(after)
    ELSE /\ IsSequence(after)
         /\ Len(after.cells) = Len(before.cells)
         /\ \A i \in 1..Len(before.cells) :
               ShiftedBy(before.cells[i], after.cells[i], d)

\* the Sequences of a tree, the tree itself included
RECURSIVE SequencesOf(_)
SequencesOf(c) ==
    IF IsSequence(c)
    THEN {c} \cup UNION {SequencesOf(c.cells[i]) : i \in 1..Len(c.cells)}
    ELSE {}

----------------------------------------------------------------------------
(* C14 *)

RandomizeOps ==
    {"randomize_intervals", "randomize_velocity", "randomize_delay",
     "randomize_gate"}

\* C14: a call of randomize_intervals/velocity/delay/gate throws
\* std::invalid_argument when min > max, the three float variants also when
\* min or max lies outside [0,1], and otherwise returns a tree; the caller's
\* tree is the same after the call, whether it threw or not.
C14_RandomizeValidatesFirst ==
    [][(op = "none" /\ op' \in RandomizeOps) =>
          /\ cell' = cell
          /\ args'.min > args'.max => result' = Thrown
          /\ (op' # "randomize_intervals"
              /\ (\E b \in {args'.min, args'.max} : b < 0 \/ b > Unit))
                 => result' = Thrown
          /\ (args'.min <= args'.max
              /\ (op' = "randomize_intervals"
                  \/ \A b \in {args'.min, args'.max} : 0 <= b /\ b <= Unit))
                 => result'.status = "ok"]_vars

\* randomize_velocity refused bounds in the right order of which the upper
\* one is above 1, on a tree that holds Notes at two depths
C14_Witness ==
    /\ op = "randomize_velocity"
    /\ result = Thrown
    /\ args.min <= args.max
    /\ args.min >= 0
    /\ args.max > Unit
    /\ IsSequence(cell)
    /\ \E i, k \in 1..Len(cell.cells) :
          /\ IsNote(cell.cells[i])
          /\ IsSequence(cell.cells[k])
          /\ \E j \in 1..Len(cell.cells[k].cells) : IsNote(cell.cells[k].cells[j])

----------------------------------------------------------------------------
(* C15 *)

\* C15: repeat(cell, 0) and stretch(cell, 0) throw std::invalid_argument and
\* return no tree.
C15_ZeroCountThrows ==
    (op \in {"repeat", "stretch"} /\ args.count = 0) => result = Thrown

----------------------------------------------------------------------------
(* C16 *)

\* C16: extract(seq, index) returns the direct child at position index when
\* index < |seq| and throws std::invalid_argument when index >= |seq|;
\* first(seq) and last(seq) return the first and the last direct child and
\* throw std::invalid_argument when seq is an empty Sequence.
C16_ExtractFirstLast ==
    IsSequence(cell) =>
        LET n == Len(cell.cells)
        IN  /\ op = "extract" =>
                  IF args.index < n
                  THEN result = Ok(cell.cells[args.index + 1])
                  ELSE result = Thrown
            /\ op \in {"first", "hpp_first"} =>
                  IF n = 0 THEN result = Thrown ELSE result = Ok(cell.cells[1])
            /\ op \in {"last", "hpp_last"} =>
                  IF n = 0 THEN result = Thrown ELSE result = Ok(cell.cells[n])

----------------------------------------------------------------------------
(* C17 *)

\* `after` holds the children of the Sequence `before`, each as it was, in
\* the cyclic order that starts with the child at index `start`
RotatedFrom(before, after, start) ==
    /\ IsSequence(after)
    /\ Len(after.cells) = Len(before.cells)
    /\ \A i \in 1..Len(before.cells) :
          after.cells[i]
              = before.cells[((i - 1 + start) % Len(before.cells)) + 1]

----------------------------------------------------------------------------
(* C18 *)

RECURSIVE Flipped(_, _, _)
\* `after` is `before` with every Note turned into a Rest and every Rest
\* into the Note n, at every depth
Flipped(before, after, n) ==
    IF IsNote(before) THEN after = Rest
    ELSE IF IsRest(before) THEN after = n
    ELSE /\ IsSequence(after)
         /\ Len(after.cells) = Len(before.cells)
         /\ \A i \in 1..Len(before.cells) :
               Flipped(before.cells[i], after.cells[i], n)

\* C18: flip(cell, n) turns every Note into a Rest and every Rest into the
\* caller-given Note n at every depth of the tree, Rests inside nested
\* Sequences included.
C18_FlipUsesGivenNote ==
    op = "flip" => (result.status = "ok" /\ Flipped(cell, result.cell, args.n))

----------------------------------------------------------------------------
(* C19 *)

RECURSIVE SwungChildren(_, _, _)
\* the Sequence `after` is the Sequence `before` with the delay of every
\* Note at an even index set to 0 and at an odd index to a, the index being
\* the position among the direct children of its own parent; Rests, the
\* other Note fields and the child counts are as before
SwungChildren(before, after, a) ==
    /\ IsSequence(after)
    /\ Len(after.cells) = Len(before.cells)
    /\ \A i \in 1..Len(before.cells) :
          LET b == before.cells[i]
              r == after.cells[i]
          IN  IF IsNote(b)
              THEN r = [b EXCEPT !.delay = IF (i - 1) % 2 = 1 THEN a ELSE 0]
              ELSE IF IsRest(b) THEN r = Rest
              ELSE SwungChildren(b, r, a)

\* C19: swing(cell, amount) throws std::invalid_argument for an amount
\* outside [0,1]; otherwise it sets the delay of every Note at an even index
\* of its parent Sequence to 0 and at an odd index to amount, the parity
\* restarting inside every Sequence, and leaves Rests, pitch, velocity, gate
\* and child counts unchanged.
C19_SwingByParity ==
    op = "swing" =>
        IF args.amount < 0 \/ args.amount > Unit
        THEN result = Thrown
        ELSE /\ result.status = "ok"
             /\ result.cell.type = cell.type
             /\ IsSequence(cell) => SwungChildren(cell, result.cell, args.amount)

\* a swing by a non-zero amount of a Sequence whose child at the odd index 1
\* is a Sequence of two Notes: the first of them, at even index 0 of its own
\* parent, lost its delay and the second took the amount
C19_Witness ==
    /\ op = "swing"
    /\ args.amount = 1
    /\ IsSequence(cell)
    /\ Len(cell.cells) = 2
    /\ IsNote(cell.cells[1])
    /\ IsSequence(cell.cells[2])
    /\ Len(cell.cells[2].cells) = 2
    /\ IsNote(cell.cells[2].cells[1])
    /\ cell.cells[2].cells[1].delay # 0
    /\ IsNote(cell.cells[2].cells[2])
    /\ result.cell.cells[2].cells[1].delay = 0
    /\ result.cell.cells[2].cells[2].delay = 1

----------------------------------------------------------------------------
(* C20 *)

C20_WitnessNested ==
    /\ op = "compress"
    /\ args.count = 2
    /\ IsSequence(cell)
    /\ Len(cell.cells) = 2
    /\ IsSequence(cell.cells[1])
    /\ Len(cell.cells[1].cells) = 2
    /\ result.cell.cells = <<cell.cells[1]>>

----------------------------------------------------------------------------
(* C21 *)

\* a Sequence of exactly n children, each equal to c
CopiesOf(c, after, n) ==
    /\ IsSequence(after)
    /\ Len(after.cells) = n
    /\ \A i \in 1..n : after.cells[i] = c

RECURSIVE Stretched(_, _, _)
\* `after` is `before` with every Note and Rest replaced by a Sequence of n
\* copies of it, every Sequence keeping its number of direct children
Stretched(before, after, n) ==
    IF IsSequence(before)
    THEN /\ IsSequence(after)
         /\ Len(after.cells) = Len(before.cells)
         /\ \A i \in 1..Len(before.cells) :
               Stretched(before.cells[i], after.cells[i], n)
    ELSE CopiesOf(before, after, n)

----------------------------------------------------------------------------
(* C22 *)

\* C22: for two non-empty Sequences a and b, merge(a, b) has exactly
\* 2 * max(|a|, |b|) children, child 2i being a[i mod |a|] and child 2i+1
\* being b[i mod |b|]; if either Sequence has no children the other one is
\* returned unchanged (two empty Sequences give an empty Sequence).
C22_MergeInterleaves ==
    (op = "merge" /\ IsSequence(cell) /\ IsSequence(args.other)) =>
        LET a == cell.cells
            b == args.other.cells
            r == result.cell
        IN  /\ result.status = "ok"
            /\ IsSequence(r)
            /\ (a # <<>> /\ b # <<>>) =>
                  /\ Len(r.cells) = 2 * Max(Len(a), Len(b))
                  /\ \A i \in 0..(Max(Len(a), Len(b)) - 1) :
                        /\ r.cells[2 * i + 1] = a[(i % Len(a)) + 1]
                        /\ r.cells[2 * i + 2] = b[(i % Len(b)) + 1]
            /\ (a = <<>>) => r = args.other
            /\ (a # <<>> /\ b = <<>>) => r = cell

\* a merge of a Sequence of three children with a Sequence of two, which
\* wraps around the shorter one
C22_Witness ==
    /\ op = "merge"
    /\ IsSequence(cell) /\ Len(cell.cells) = 3
    /\ IsSequence(args.other) /\ Len(args.other.cells) = 2
    /\ args.other.cells[1] # args.other.cells[2]
    /\ Len(result.cell.cells) = 6
    /\ result.cell.cells[6] = args.other.cells[1]

\* a merge with an empty first Sequence
C22_WitnessEmpty ==
    /\ op = "merge"
    /\ cell = Sequence(<<>>)
    /\ IsSequence(args.other) /\ Len(args.other.cells) = 2
    /\ result.cell = args.other

----------------------------------------------------------------------------
(* C23 *)

\* C23: divide(seq, index) returns a Sequence of exactly two Sequences, the
\* first holding the first min(index, |seq|) children and the second the
\* remaining ones, so that concat(first, second) = seq; divide(seq, 0) yields
\* (empty, seq) and divide(seq, i) for every i >= |seq| yields (seq, empty).
C23_DivideSplitsAtIndex ==
    (op = "divide" /\ IsSequence(cell)) =>
        LET r == result.cell
            n == Min(args.index, Len(cell.cells))
        IN  /\ result.status = "ok"
            /\ IsSequence(r)
            /\ Len(r.cells) = 2
            /\ IsSequence(r.cells[1]) /\ IsSequence(r.cells[2])
            /\ Len(r.cells[1].cells) = n
            /\ \A i \in 1..n : r.cells[1].cells[i] = cell.cells[i]
            /\ Len(r.cells[2].cells) = Len(cell.cells) - n
            /\ \A i \in 1..(Len(cell.cells) - n) :
                  r.cells[2].cells[i] = cell.cells[n + i]
            /\ concat(r.cells[1], r.cells[2]) = cell
            /\ (args.index = 0) => r = Sequence(<<Sequence(<<>>), cell>>)
            /\ (args.index >= Len(cell.cells)) =>
                  r = Sequence(<<cell, Sequence(<<>>)>>)

\* a divide of a Sequence of four children at index 1
C23_Witness ==
    /\ op = "divide"
    /\ IsSequence(cell) /\ Len(cell.cells) = 4
    /\ args.index = 1
    /\ Len(result.cell.cells[1].cells) = 1
    /\ Len(result.cell.cells[2].cells) = 3

\* a divide of a Sequence of two children at an index past its end
C23_WitnessPastEnd ==
    /\ op = "divide"
    /\ IsSequence(cell) /\ Len(cell.cells) = 2
    /\ args.index = MaxIndex
    /\ result.cell.cells[1] = cell

----------------------------------------------------------------------------
(* C24 *)

RECURSIVE Reversed(_, _)
\* `after` is `before` with the child order of every Sequence reversed, at
\* every depth, and every Note and Rest as it was
Reversed(before, after) ==
    IF IsSequence(before)
    THEN /\ IsSequence(after)
         /\ Len(after.cells) = Len(before.cells)
         /\ \A i \in 1..Len(before.cells) :
               Reversed(before.cells[i],
                        after.cells[Len(before.cells) + 1 - i])
    ELSE after = before

\* C24: reverse(reverse(cell)) = cell for every tree: reverse reverses the
\* child order of every Sequence at every depth, leaves each Note and Rest
\* unchanged, and maps an empty Sequence to an empty Sequence.
C24_ReverseIsInvolution ==
    (op = "reverse") =>
        /\ result.status = "ok"
        /\ Reversed(cell, result.cell)
        /\ reverse(result.cell) = cell
        /\ (cell = Sequence(<<>>)) => result.cell = Sequence(<<>>)

\* a reverse of a Sequence that holds a leaf and a child Sequence of two
\* different leaves
C24_Witness ==
    /\ op = "reverse"
    /\ IsSequence(cell) /\ Len(cell.cells) = 2
    /\ ~IsSequence(cell.cells[1])
    /\ IsSequence(cell.cells[2])
    /\ Len(cell.cells[2].cells) = 2
    /\ cell.cells[2].cells[1] # cell.cells[2].cells[2]
    /\ result.cell.cells[2] = cell.cells[1]
    /\ result.cell.cells[1].cells[1] = cell.cells[2].cells[2]

----------------------------------------------------------------------------
(* Measure and phrase lengths: samples_count (src/measure.cpp and the       *)
(* inline twin of include/sequence/measure.hpp). `phrase` holds the Phrase, *)
(* `tl_args` the sample rate and tempo, `timeline` what the call returned.  *)

\* longest Phrase handed to samples_count
MaxMeasures == 2

\* the time signatures, sample rates and tempos tried
MeasureTimeSignatures ==
    {[numerator |-> n, denominator |-> d] : n \in {3, 4, 6, 7}, d \in {2, 4, 8}}
MeasureSampleRates == {7, 44100, 48000}
MeasureBpms == {90, 120, 140}

\* Phrases of Measures that differ in their time signature only
MeasurePhrases ==
    SeqsOf({Measure(Rest, ts) : ts \in MeasureTimeSignatures}, 1, MaxMeasures)

\* the inline samples_count(Measure, sample_rate, bpm) of measure.hpp:
\* uint32(sample_rate * 60 / bpm * numerator)
hpp_samples_count(m, sample_rate, bpm) ==
    (sample_rate * 60 * m.time_signature.numerator) \div bpm

RECURSIVE samples_count_phrase_from(_, _, _, _, _)
\* the loop of samples_count(Phrase, ...) of measure.cpp from measure k on:
\* output += samples_count(measure, sample_rate, bpm)
samples_count_phrase_from(ph, k, sample_rate, bpm, output) ==
    IF k > Len(ph) THEN output
    ELSE samples_count_phrase_from(ph, k + 1, sample_rate, bpm,
             output + samples_count(ph[k], sample_rate, bpm))

\* samples_count(Phrase const &, sample_rate, bpm) of measure.cpp
samples_count_phrase(ph, sample_rate, bpm) ==
    samples_count_phrase_from(ph, 1, sample_rate, bpm, 0)

RECURSIVE hpp_samples_count_phrase_from(_, _, _, _, _)
\* the same loop in measure.hpp, over the inline samples_count
hpp_samples_count_phrase_from(ph, k, sample_rate, bpm, output) ==
    IF k > Len(ph) THEN output
    ELSE hpp_samples_count_phrase_from(ph, k + 1, sample_rate, bpm,
             output + hpp_samples_count(ph[k], sample_rate, bpm))

\* the inline samples_count(Phrase const &, sample_rate, bpm) of measure.hpp
hpp_samples_count_phrase(ph, sample_rate, bpm) ==
    hpp_samples_count_phrase_from(ph, 1, sample_rate, bpm, 0)

\* what a samples_count call leaves behind: which definition ran, on which
\* measure (0 for the whole phrase), and the count returned
Counted(variant, k, n) ==
    [status |-> "ok", variant |-> variant, measure |-> k, count |-> n]

\* one call of samples_count on a Measure of the phrase
SamplesCountMeasure ==
    /\ timeline.status = "none"
    /\ \E k \in 1..Len(phrase) :
          timeline' = Counted("cpp", k,
              samples_count(phrase[k], tl_args.sample_rate, tl_args.bpm))
    /\ UNCHANGED <<phrase, tl_args>>
    /\ UNCHANGED <<viewVars, modifyVars, midiVars>>

\* one call of the inline samples_count on a Measure of the phrase
SamplesCountMeasureHpp ==
    /\ timeline.status = "none"
    /\ \E k \in 1..Len(phrase) :
          timeline' = Counted("hpp", k,
              hpp_samples_count(phrase[k], tl_args.sample_rate, tl_args.bpm))
    /\ UNCHANGED <<phrase, tl_args>>
    /\ UNCHANGED <<viewVars, modifyVars, midiVars>>

\* one call of samples_count on the Phrase
SamplesCountPhrase ==
    /\ timeline.status = "none"
    /\ timeline' = Counted("cpp", 0,
           samples_count_phrase(phrase, tl_args.sample_rate, tl_args.bpm))
    /\ UNCHANGED <<phrase, tl_args>>
    /\ UNCHANGED <<viewVars, modifyVars, midiVars>>

\* one call of the inline samples_count on the Phrase
SamplesCountPhraseHpp ==
    /\ timeline.status = "none"
    /\ timeline' = Counted("hpp", 0,
           hpp_samples_count_phrase(phrase, tl_args.sample_rate, tl_args.bpm))
    /\ UNCHANGED <<phrase, tl_args>>
    /\ UNCHANGED <<viewVars, modifyVars, midiVars>>

MeasureInit ==
    /\ phrase \in MeasurePhrases
    /\ tl_args \in [sample_rate : MeasureSampleRates, bpm : MeasureBpms]
    /\ timeline = NoValue
    /\ ViewIdle /\ ModifyIdle /\ MidiIdle

MeasureNext ==
    \/ SamplesCountMeasure \/ SamplesCountMeasureHpp
    \/ SamplesCountPhrase \/ SamplesCountPhraseHpp

MeasureSpec == MeasureInit /\ [][MeasureNext]_vars

----------------------------------------------------------------------------
(* C25 *)

\* n is sample_rate * 60 / bpm * (4 * numerator / denominator) truncated to an
\* unsigned integer: the largest n with n * bpm * denominator at most
\* sample_rate * 60 * 4 * numerator
IsTruncatedLength(n, m, sample_rate, bpm) ==
    LET exact == sample_rate * 60 * 4 * m.time_signature.numerator
        unit == bpm * m.time_signature.denominator
    IN  /\ n >= 0
        /\ n * unit <= exact
        /\ exact < (n + 1) * unit

\* C25: samples_count(measure, sample_rate, bpm) is
\* sample_rate * 60 / bpm * beats_per_measure with
\* beats_per_measure = 4 * numerator / denominator, truncated to an unsigned
\* integer (88200 for 4/4 at 44100 Hz and 120 bpm), and samples_count of a
\* phrase is the sum of samples_count over its measures.
C25_SamplesCount ==
    (timeline.status = "ok") =>
        IF timeline.measure > 0
        THEN /\ IsTruncatedLength(timeline.count, phrase[timeline.measure],
                                  tl_args.sample_rate, tl_args.bpm)
             /\ (/\ phrase[timeline.measure].time_signature
                        = [numerator |-> 4, denominator |-> 4]
                 /\ tl_args.sample_rate = 44100
                 /\ tl_args.bpm = 120) => timeline.count = 88200
        ELSE timeline.count =
                 SumSeq([k \in 1..Len(phrase) |->
                     IF timeline.variant = "cpp"
                     THEN samples_count(phrase[k], tl_args.sample_rate,
                                        tl_args.bpm)
                     ELSE hpp_samples_count(phrase[k], tl_args.sample_rate,
                                            tl_args.bpm)], 1)

----------------------------------------------------------------------------
(* C26 *)

\* C26: for every non-empty container of length N and every Pattern whose
\* intervals are all >= 1, the loop over a pattern view, mutable or
\* read-only, ends after at most N - min(offset, N) increments: each
\* increment strictly increases the index until it is clamped to exactly N,
\* which compares equal to end().
C26_LoopEndsWithinN ==
    (/\ view_pc \in {"loop", "done", "const_loop", "const_done"}
     /\ PositiveIntervals(view_pattern)) =>
        /\ Len(visited) <= vec_size - Min(view_pattern.offset, vec_size)
        /\ \A i \in 1..(Len(visited) - 1) : visited[i] < visited[i + 1]
        /\ visited # <<>> => visited[Len(visited)] < index_
        /\ view_pc \in {"done", "const_done"} => index_ = vec_size

----------------------------------------------------------------------------
(* C27 *)

\* C27: a Pattern that contains a zero interval is rejected with a validation
\* error as soon as it is used to build a pattern view, mutable or read-only
\* (the pattern-addressed transforms build one over every Sequence they
\* rewrite); it is never iterated.
C27_ZeroIntervalRejected ==
    (view_pc # "idle" /\ ~PositiveIntervals(view_pattern)) =>
        /\ view_pc \in {"threw", "const_threw"}
        /\ visited = <<>>

----------------------------------------------------------------------------
(* Chains of level transforms (src/modify.cpp): shift_*, set_*, swing,      *)
(* quantize and humanize_* applied one after the other, each to the tree    *)
(* the last successful call returned.  `cell` is that tree, `op` and        *)
(* `result` the last call and what it returned, `args.calls` the number of  *)
(* calls made.  Levels are numbers in 1/Unit.                               *)

\* longest chain of calls followed
MaxCalls == 3

\* the trees a chain starts from: a Note, alone, beside a Note or a Rest, or
\* beside a Sequence that holds a Note or nothing; every Note starts at
\* velocity = delay = 1/Unit and gate = 1, all inside [0,1]
LevelCells ==
    LET n == Note(0, 1, 1, Unit)
    IN  {n, Sequence(<<n, n>>), Sequence(<<Rest, n>>),
         Sequence(<<n, Sequence(<<n>>)>>), Sequence(<<n, Sequence(<<>>)>>)}

\* deltas and values, in 1/Unit: the range [-1,1] and one value on either
\* side of it
LevelDeltas == (-(Unit + 1))..(Unit + 1)

RECURSIVE shift_level_Unclamped(_, _, _)
\* a plausible slip: the sum is stored as it is
shift_level_Unclamped(c, d, field) ==
    IF IsNote(c) THEN [c EXCEPT ![field] = c[field] + d]
    ELSE IF IsRest(c) THEN c
    ELSE Sequence([i \in 1..Len(c.cells) |->
                      shift_level_Unclamped(c.cells[i], d, field)])

RECURSIVE shift_level(_, _, _)
\* shift_velocity / shift_delay / shift_gate, which differ in the Note field
\* only: note.f = std::clamp(note.f + amount, 0.f, 1.f), nothing for a Rest,
\* c = shift_f(c, amount) for every child of a Sequence
shift_level(c, d, field) ==
    IF IsNote(c) THEN [c EXCEPT ![field] = Clamp(c[field] + d, 0, Unit)]
    ELSE IF IsRest(c) THEN c
    ELSE Sequence([i \in 1..Len(c.cells) |-> shift_level(c.cells[i], d, field)])

\* auto shift_velocity(Cell cell, float amount)
shift_velocity(c, d) == shift_level(c, d, "velocity")
\* auto shift_delay(Cell cell, float amount)
shift_delay(c, d) == shift_level(c, d, "delay")
\* auto shift_gate(Cell cell, float amount)
shift_gate(c, d) == shift_level(c, d, "gate")

RECURSIVE set_level(_, _, _)
\* set_velocity / set_delay / set_gate: note.f = std::clamp(value, 0.f, 1.f),
\* nothing for a Rest, c = set_f(c, value) for every child of a Sequence
set_level(c, v, field) ==
    IF IsNote(c) THEN [c EXCEPT ![field] = Clamp(v, 0, Unit)]
    ELSE IF IsRest(c) THEN c
    ELSE Sequence([i \in 1..Len(c.cells) |-> set_level(c.cells[i], v, field)])

\* auto set_velocity(Cell cell, float velocity)
set_velocity(c, v) == set_level(c, v, "velocity")
\* auto set_delay(Cell cell, float delay)
set_delay(c, v) == set_level(c, v, "delay")
\* auto set_gate(Cell cell, float gate)
set_gate(c, v) == set_level(c, v, "gate")

RECURSIVE quantize(_)
\* auto quantize(Cell cell): note.delay = 0, note.gate = 1, nothing for a
\* Rest, c = quantize(c) for every child of a Sequence
quantize(c) ==
    IF IsNote(c) THEN [c EXCEPT !.delay = 0, !.gate = Unit]
    ELSE IF IsRest(c) THEN c
    ELSE Sequence([i \in 1..Len(c.cells) |-> quantize(c.cells[i])])

RECURSIVE humanize_gate_cells(_, _)
RECURSIVE humanize_gate_from(_, _, _)

\* the std::transform of the Sequence branch from child k on: the child
\* vectors the random draws can produce
humanize_gate_from(cells, k, a) ==
    IF k > Len(cells) THEN {<<>>}
    ELSE {<<h>> \o t : h \in humanize_gate_cells(cells[k], a),
                       t \in humanize_gate_from(cells, k + 1, a)}

\* the visit of humanize_gate: a Note with its gate drawn between
\* clamp(gate - amount) and clamp(gate + amount), a Rest as it is, a Sequence
\* of humanize_gate of every child
humanize_gate_cells(c, a) ==
    IF IsNote(c)
    THEN LET min == Clamp(c.gate - a, 0, Unit)
             max == Clamp(c.gate + a, 0, Unit)
         IN  {[c EXCEPT !.gate = x] : x \in min..max}
    ELSE IF IsRest(c) THEN {c}
    ELSE {Sequence(v) : v \in humanize_gate_from(c.cells, 1, a)}

\* auto humanize_gate(Cell const &cell, float amount): throws for an amount
\* outside [0,1] (the recursive calls pass the check the outer call has
\* passed); the set of values the call can return
humanize_gate(c, a) ==
    IF a < 0 \/ a > Unit THEN {Thrown}
    ELSE {Ok(x) : x \in humanize_gate_cells(c, a)}

\* one call in a chain: a successful call hands its tree to the next call, a
\* call that throws leaves the caller with the tree it had
LevelCall(name, outcome) ==
    /\ args.calls < MaxCalls
    /\ op' = name
    /\ result' = outcome
    /\ cell' = IF outcome.status = "ok" THEN outcome.cell ELSE cell
    /\ args' = [calls |-> args.calls + 1]
    /\ UNCHANGED <<pattern, amount>>
    /\ UNCHANGED <<viewVars, midiVars, timelineVars>>

LevelShiftVelocity ==
    \E d \in LevelDeltas : LevelCall("shift_velocity", Ok(shift_velocity(cell, d)))
LevelShiftDelay ==
    \E d \in LevelDeltas : LevelCall("shift_delay", Ok(shift_delay(cell, d)))
LevelShiftGate ==
    \E d \in LevelDeltas : LevelCall("shift_gate", Ok(shift_gate(cell, d)))
LevelSetVelocity ==
    \E v \in LevelDeltas : LevelCall("set_velocity", Ok(set_velocity(cell, v)))
LevelSetDelay ==
    \E v \in LevelDeltas : LevelCall("set_delay", Ok(set_delay(cell, v)))
LevelSetGate ==
    \E v \in LevelDeltas : LevelCall("set_gate", Ok(set_gate(cell, v)))
LevelSwing ==
    \E a \in Amounts : LevelCall("swing", swing(cell, a, FALSE))
LevelQuantize == LevelCall("quantize", Ok(quantize(cell)))
LevelHumanizeVelocity ==
    \E p \in ModifyPatterns, a \in Amounts :
        \E r \in humanize_velocity(cell, p, a) : LevelCall("humanize_velocity", r)
LevelHumanizeDelay ==
    \E p \in ModifyPatterns, a \in Amounts :
        \E r \in humanize_delay(cell, p, a) : LevelCall("humanize_delay", r)
LevelHumanizeGate ==
    \E a \in Amounts :
        \E r \in humanize_gate(cell, a) : LevelCall("humanize_gate", r)

LevelInit ==
    /\ cell \in LevelCells
    /\ pattern = NoValue
    /\ amount = 0
    /\ args = [calls |-> 0]
    /\ result = NoValue
    /\ op = "none"
    /\ ViewIdle /\ MidiIdle /\ TimelineIdle

LevelNext ==
    \/ LevelShiftVelocity \/ LevelShiftDelay \/ LevelShiftGate
    \/ LevelSetVelocity \/ LevelSetDelay \/ LevelSetGate
    \/ LevelSwing \/ LevelQuantize
    \/ LevelHumanizeVelocity \/ LevelHumanizeDelay \/ LevelHumanizeGate

LevelSpec == LevelInit /\ [][LevelNext]_vars

----------------------------------------------------------------------------
(* C28 *)

RECURSIVE LevelsInRange(_)
\* every Note of the tree has velocity, delay and gate in [0,1]
LevelsInRange(c) ==
    IF IsNote(c)
    THEN /\ c.velocity >= 0 /\ c.velocity <= Unit
         /\ c.delay >= 0 /\ c.delay <= Unit
         /\ c.gate >= 0 /\ c.gate <= Unit
    ELSE IF IsRest(c) THEN TRUE
    ELSE \A i \in 1..Len(c.cells) : LevelsInRange(c.cells[i])

\* C28: starting from a tree whose Notes all have velocity, delay and gate in
\* [0,1], every tree reached by any chain of successful shift_velocity /
\* shift_delay / shift_gate (any delta), set_velocity / set_delay / set_gate
\* (any value), swing, quantize and humanize_velocity / delay / gate calls
\* still has velocity, delay and gate in [0,1] on every Note.
C28_LevelsStayInRange ==
    /\ LevelsInRange(cell)
    /\ result.status = "ok" => LevelsInRange(result.cell)

\* a third or later call, a shift_gate below zero that was clamped, on a tree
\* whose velocity an earlier call had raised to 1
C28_Witness ==
    /\ args.calls >= 3
    /\ op = "shift_gate"
    /\ result.status = "ok"
    /\ IsSequence(cell)
    /\ NoteCount(cell) = 2
    /\ \E i \in 1..Len(cell.cells) :
          /\ IsNote(cell.cells[i])
          /\ cell.cells[i].gate = 0
          /\ cell.cells[i].velocity = Unit
          /\ cell.cells[i].delay = 0

----------------------------------------------------------------------------
(* C29 *)

\* C29: for every phrase whose Notes have delay and gate in [0,1], the sample
\* ranges produced in traversal order satisfy begin_k <= end_k <= begin_(k+1):
\* each range lies inside its own cell's time slot, and the slots of later
\* cells and of later measures start no earlier than earlier ones end; hence
\* the sample offsets of the emitted EventTimeline are non-decreasing in
\* emission order.
C29_RangesInOrder ==
    /\ Translated =>
          LET ranges == timeline.ranges
              events == timeline.events
          IN  /\ \A k \in 1..Len(ranges) : ranges[k].begin <= ranges[k].end
              /\ \A k \in 1..(Len(ranges) - 1) :
                    ranges[k].end <= ranges[k + 1].begin
              /\ \A j \in 1..(Len(events) - 1) :
                    events[j].sample <= events[j + 1].sample
    /\ TranslatedCpp =>
          LET ranges == timeline.ranges
              calls == timeline.note_calls
          IN  /\ Len(calls) = Len(ranges)
              /\ \A k \in 1..Len(ranges) :
                    /\ ToUint32(calls[k].offset) <= ranges[k].begin
                    /\ ranges[k].end <=
                          ToUint32(calls[k].offset
                                       + ToFloat(calls[k].total_samples))
              /\ \A k \in 1..(Len(ranges) - 1) :
                    calls[k].offset + ToFloat(calls[k].total_samples)
                        <= calls[k + 1].offset

\* a phrase of two measures with three or more Notes, one range ending
\* before the next begins and one ending where the next begins
C29_Witness ==
    /\ TranslatedCpp
    /\ Len(phrase) = 2
    /\ Len(timeline.ranges) >= 3
    /\ Len(timeline.events) = 3 * Len(timeline.ranges)
    /\ \E k \in 1..(Len(timeline.ranges) - 1) :
          /\ timeline.ranges[k].begin < timeline.ranges[k].end
          /\ timeline.ranges[k].end < timeline.ranges[k + 1].begin
    /\ \E k \in 1..(Len(timeline.ranges) - 1) :
          /\ timeline.ranges[k].begin < timeline.ranges[k].end
          /\ timeline.ranges[k].end = timeline.ranges[k + 1].begin

----------------------------------------------------------------------------
(* C30 *)

RECURSIVE ReachesEmpty(_, _)
\* the tree is an empty Sequence, or a Sequence with a pattern-selected child
\* of which the same holds
ReachesEmpty(c, p) ==
    /\ IsSequence(c)
    /\ \/ c.cells = <<>>
       \/ \E i \in Selected(Len(c.cells), p) : ReachesEmpty(c.cells[i + 1], p)

\* C30: humanize_velocity or humanize_delay applied to an empty Sequence, or
\* reaching an empty Sequence at a pattern-selected position anywhere in the
\* tree, fails with the std::invalid_argument of the pattern view and returns
\* no tree, even when amount and pattern are valid.
C30_EmptySequenceThrows ==
    (/\ op \in {"humanize_velocity", "humanize_delay"}
     /\ amount >= 0 /\ amount <= Unit
     /\ pattern.intervals # <<>>
     /\ ReachesEmpty(cell, pattern)) => result = Thrown

\* a valid amount and pattern, and an empty Sequence as the selected second
\* child of a Sequence whose first child is a Note
C30_Witness ==
    /\ op = "humanize_velocity"
    /\ amount = 1
    /\ pattern = [offset |-> 1, intervals |-> <<1>>]
    /\ IsSequence(cell) /\ Len(cell.cells) = 2
    /\ IsNote(cell.cells[1])
    /\ cell.cells[2] = Sequence(<<>>)
    /\ result = Thrown

\* a valid amount and pattern, and the empty Sequence itself
C30_WitnessTop ==
    /\ op = "humanize_delay"
    /\ amount = Unit
    /\ pattern = [offset |-> 0, intervals |-> <<1>>]
    /\ cell = Sequence(<<>>)
    /\ result = Thrown

====
